---- MODULE Spec2Model ----
(***************************************************************************)
(* Model of the capture-to-sync pipeline of the lifespan desktop agent:    *)
(*   - EventQueue      (collector/event_queue.rs)                          *)
(*   - Collector       (collector/mod.rs), the polling loop                *)
(*   - WindowTracker   (collector/window_tracker.rs), the privacy filter   *)
(*   - Database        (database/connection.rs), the durable store         *)
(*   - SyncClient      (sync/client.rs), the batch sync engine             *)
(* Every await point of the Rust code is a step of the model; code between *)
(* two await points runs as one step (the OS probes of the polling loop    *)
(* are synchronous calls and belong to the step that reads is_running).    *)
(* The build modelled is the Windows build (the cfg(windows) branches of   *)
(* the probes).                                                            *)
(***************************************************************************)
EXTENDS Integers, Sequences, FiniteSets, TLC

(***************************************************************************)
(* Bounds of the model.                                                    *)
(***************************************************************************)
\* largest capacity a queue is constructed with (EventQueue::new(max_size))
MaxCapacity == 2
\* number of enqueue calls made over a run
MaxEnqueues == 3
\* number of rows the local_events table grows to
MaxEvents == 3
\* latest reading of the wall clock
MaxTime == 2
\* number of pieces a probed window title is made of
MaxPieces == 4
\* number of ticker tasks spawned over a run
MaxTickers == 3
\* the batch cap of sync_events, take(100), scaled down to the model's store
BatchLimit == 2

\* tasks calling EventQueue::enqueue concurrently
Producers == {"p1", "p2"}
\* probed process names
Apps == {"A", "B"}
\* window titles (already sanitized by the probe)
Titles == {"t1", "t2"}
\* WindowInfo: what one probe of the foreground window may return (two
\* processes, one of them with two window titles)
WindowInfo ==
  {w \in [process_name : Apps, window_title : Titles] :
     w.process_name = "A" \/ w.window_title = "t1"}
\* the snapshots captured while the sync engine is observed
CapturedWindows == {[process_name |-> "A", window_title |-> "t1"]}
\* tasks calling Collector::start and Collector::stop concurrently
MonCallers == {"m1", "m2"}
\* polling loop tasks that may be alive at the same time
LoopIds == {1, 2}
\* tasks calling sync_events concurrently (sync_now, check_and_sync_if_needed)
SyncCallers == {"s1", "s2"}
\* server configurations an operator may set
Configs == {"cfg1"}

None == "None"
\* no snapshot
NoWindow == [process_name |-> None, window_title |-> None]

VARIABLES
  \* ---- EventQueue ----
  max_size,      \* EventQueue.max_size
  events,        \* EventQueue.events: Vec<QueuedEvent>
  semaphore,     \* available permits of EventQueue.semaphore
  enq,           \* per producer: position inside enqueue, its argument and
                 \* the number of the call (stands for the fresh uuid)
  enq_calls,     \* number of enqueue calls started (bounds the run)
  drained,       \* the vector returned by the last drain()
  appended,      \* not a variable of the code: the ids of the events pushed
                 \* so far, in the order of the pushes
  taken          \* not a variable of the code: the ids returned by the
                 \* drains so far, one drain after the other

queueVars == <<max_size, events, semaphore, enq, enq_calls, drained,
               appended, taken>>

VARIABLES
  \* ---- Database (the durable store) ----
  local_events,   \* table local_events, in insertion order
  local_settings, \* table local_settings: key -> value or None
  sync_state,     \* table sync_state: key -> <<value>>, or <<>> for no row
  now             \* the wall clock, Utc::now(), in milliseconds

storeVars == <<local_events, local_settings, sync_state, now>>

VARIABLES
  \* ---- SyncClient ----
  crypto,        \* SyncClient.crypto: None or "Some"
  config,        \* SyncClient.config, the cached ServerConfig: None or a config
  is_syncing,    \* SyncClient.is_syncing
  reset_tasks,   \* tasks spawned by the scope guard that have not run yet
  sync,          \* per caller: position inside sync_events and its locals
  returned       \* the SyncResult of the call that returned last (NoResult
                 \* again once a later call has started)

syncVars == <<crypto, config, is_syncing, reset_tasks, sync, returned>>

VARIABLES
  \* ---- Collector ----
  is_running,         \* Collector.is_running
  is_running_lock,    \* who holds the is_running mutex across an await, or None
  events_collected,   \* Collector.events_collected
  active_window,      \* Collector.active_window: None or "process - title"
  active_window_lock, \* the loop holding the active_window mutex across an
                      \* await, or 0
  loops,              \* the polling loop tasks: position and locals of each
  mon                 \* per caller: position inside start or stop

monVars == <<is_running, is_running_lock, events_collected, active_window,
             active_window_lock, loops, mon>>

VARIABLES
  \* ---- WindowTracker ----
  raw_title,       \* the title of the foreground window (GetWindowTextW)
  sanitized_title  \* the window_title of the WindowInfo the last probe
                   \* returned, or None

trackerVars == <<raw_title, sanitized_title>>

VARIABLES
  \* ---- SyncClient: the mutexes and the calls that take them ----
  guards,  \* per mutex of SyncClient: the task holding its MutexGuard, or None
  task     \* per caller of get_status, set_config, set_crypto_key: position
           \* inside the call

lockVars == <<guards, task>>

VARIABLES
  \* ---- SyncClient: the auto-sync scheduler ----
  auto_sync_handle, \* SyncClient.auto_sync_handle: the ticker task of the
                    \* stored JoinHandle, or 0 for None
  tickers,          \* the ticker tasks that are alive
  spawned,          \* number of ticker tasks spawned so far
  auto              \* per caller of start_auto_sync: position inside the call
                    \* and the ticker task it has spawned

autoVars == <<auto_sync_handle, tickers, spawned, auto>>

vars ==
  <<queueVars, storeVars, syncVars, monVars, trackerVars, lockVars, autoVars>>

\* what the operations of one component leave alone
notQueueVars == <<storeVars, syncVars, monVars, trackerVars, lockVars, autoVars>>
notSyncVars == <<queueVars, monVars, trackerVars, lockVars, autoVars>>
notMonVars == <<queueVars, syncVars, trackerVars, lockVars, autoVars>>

(***************************************************************************)
(* EventQueue                                                              *)
(***************************************************************************)
\* EventQueue::new(max_size): empty vector, max_size permits
QueueInit ==
  /\ max_size \in 1..MaxCapacity
  /\ events = <<>>
  /\ semaphore = max_size
  /\ enq = [p \in Producers |-> [pc |-> "idle", window_info |-> NoWindow, n |-> 0]]
  /\ enq_calls = 0
  /\ drained = <<>>
  /\ appended = <<>>
  /\ taken = <<>>

\* a producer calls enqueue(window_info)
EnqueueCall(p, w) ==
  /\ enq[p].pc = "idle"
  /\ enq_calls < MaxEnqueues
  /\ enq' = [enq EXCEPT ![p] = [pc |-> "acquire", window_info |-> w,
                                 n |-> enq_calls + 1]]
  /\ enq_calls' = enq_calls + 1
  /\ UNCHANGED <<max_size, events, semaphore, drained, appended, taken>>
  /\ UNCHANGED notQueueVars

\* let _permit = self.semaphore.acquire().await: suspends until a permit is free
EnqueueAcquire(p) ==
  /\ enq[p].pc = "acquire"
  /\ semaphore > 0
  /\ semaphore' = semaphore - 1
  /\ enq' = [enq EXCEPT ![p].pc = "push"]
  /\ UNCHANGED <<max_size, events, enq_calls, drained, appended, taken>>
  /\ UNCHANGED notQueueVars

\* the QueuedEvent built by enqueue: fresh id, the snapshot, zero retry count
QueuedEvent(id, w) == [id |-> id, window_info |-> w, retry_count |-> 0]

\* what happens to the permit held in _permit when enqueue returns:
\* a SemaphorePermit that goes out of scope is released back to the semaphore
PermitOnReturn(n) == n + 1

\* the ids of a vector of events
Ids(q) == [k \in DOMAIN q |-> q[k].id]

\* a push that inserts at the front of the vector
push_front(q, event) == <<event>> \o q

\* Vec::push
push(q, event) == Append(q, event)

\* events.lock().await; events.push(event); Ok(()) -- the lock guard and then
\* _permit are dropped on return
EnqueuePush(p) ==
  /\ enq[p].pc = "push"
  /\ events' = push(events, QueuedEvent(enq[p].n, enq[p].window_info))
  /\ appended' = Append(appended, enq[p].n)
  /\ semaphore' = PermitOnReturn(semaphore)
  /\ enq' = [enq EXCEPT ![p] = [pc |-> "idle", window_info |-> NoWindow, n |-> 0]]
  /\ UNCHANGED <<max_size, enq_calls, drained, taken>>
  /\ UNCHANGED notQueueVars

\* a drain that tops the semaphore up by the capacity
PermitsRefilled(permits, count) == permits + max_size

\* drain: for _ in 0..count { semaphore.add_permits(1) }
PermitsReleased(permits, count) == permits + count

\* drain(): under the lock, take every event and add one permit per event
Drain ==
  /\ drained' = events
  /\ taken' = taken \o Ids(events)
  /\ events' = <<>>
  /\ semaphore' = PermitsReleased(semaphore, Len(events))
  /\ UNCHANGED <<max_size, enq, enq_calls, appended>>
  /\ UNCHANGED notQueueVars

QueueNext ==
  \/ \E p \in Producers, w \in WindowInfo : EnqueueCall(p, w)
  \/ \E p \in Producers : EnqueueAcquire(p)
  \/ \E p \in Producers : EnqueuePush(p)
  \/ Drain

(***************************************************************************)
(* Database: the durable store                                             *)
(***************************************************************************)
\* Database::new / init_schema: empty tables (the idle_threshold_seconds
\* setting is not read by the pipeline and is left out)
StoreInit ==
  /\ local_events = <<>>
  /\ local_settings = [k \in {"server_config", "last_sync_error"} |-> None]
  /\ sync_state = [k \in {"last_sync_at"} |-> <<>>]
  /\ now = 0

Range(s) == {s[i] : i \in DOMAIN s}
Min(a, b) == IF a <= b THEN a ELSE b

\* the row store_event_sync inserts: fresh id, timestamp = Utc::now(),
\* event_type "app_usage", duration 0, synced DEFAULT 0
StoredRow(id, t, w) ==
  [id |-> id, event_type |-> "app_usage", timestamp |-> t, duration |-> 0,
   app_name |-> w.process_name, window_title |-> w.window_title,
   synced |-> FALSE]

store_event_sync(rows, t, w) == Append(rows, StoredRow(Len(rows) + 1, t, w))

\* the rows WHERE synced = 0
UnsyncedRows(rows) == {i \in DOMAIN rows : ~rows[i].synced}

\* a SELECT without ORDER BY: the rows come in any order
AnyOrder(rows, s) == TRUE

\* ORDER BY timestamp ASC: rows of equal timestamp come in an order SQL
\* leaves open
OldestFirst(rows, s) ==
  \A i, j \in DOMAIN s : i < j => rows[s[i]].timestamp <= rows[s[j]].timestamp

\* get_unsynced_events: the possible results, as sequences of row ids
get_unsynced_events(rows) ==
  LET U == UnsyncedRows(rows)
      n == Cardinality(U)
  IN {s \in [1..n -> U] : /\ \A i, j \in 1..n : i # j => s[i] # s[j]
                          /\ OldestFirst(rows, s)}

\* Database::get_unsynced_events_sync, the read SyncClient calls: its body is
\* not among the sources; it is taken to be the query of get_unsynced_events
\* (the unsynced events, oldest timestamp first)
get_unsynced_events_sync(rows) == get_unsynced_events(rows)

\* an UPDATE that writes the flag of every row: set for the ids given,
\* cleared for the others
mark_only_these(rows, event_ids) ==
  [i \in DOMAIN rows |->
     [rows[i] EXCEPT !.synced = (rows[i].id \in Range(event_ids))]]

\* an UPDATE that leaves out WHERE id = ?
mark_every_row(rows, event_ids) ==
  [i \in DOMAIN rows |-> [rows[i] EXCEPT !.synced = TRUE]]

\* an UPDATE that writes the duration along with the flag
mark_and_set_duration(rows, event_ids) ==
  [i \in DOMAIN rows |->
     IF rows[i].id \in Range(event_ids)
     THEN [rows[i] EXCEPT !.synced = TRUE, !.duration = 1]
     ELSE rows[i]]

\* mark_as_synced: UPDATE local_events SET synced = 1 WHERE id = ? for each
\* id, in one transaction; unknown ids update no row
mark_as_synced(rows, event_ids) ==
  [i \in DOMAIN rows |->
     IF rows[i].id \in Range(event_ids) THEN [rows[i] EXCEPT !.synced = TRUE]
     ELSE rows[i]]

\* set_setting / update_sync_state: upsert of one key
set_setting(table, key, value) == [table EXCEPT ![key] = value]

\* the readings of the wall clock are this many milliseconds apart
TickMillis == 30500

\* the wall clock read by Utc::now().timestamp_millis() moves (it is not
\* monotonic: it may be set back)
ClockStep ==
  /\ \E t \in 0..MaxTime : t * TickMillis # now /\ now' = t * TickMillis
  /\ UNCHANGED <<local_events, local_settings, sync_state>>
  /\ UNCHANGED <<queueVars, syncVars, monVars, trackerVars, lockVars, autoVars>>

\* capture: Database::store_event called by the monitor
StoreEvent(w) ==
  /\ Len(local_events) < MaxEvents
  /\ local_events' = store_event_sync(local_events, now, w)
  /\ UNCHANGED <<local_settings, sync_state, now>>
  /\ UNCHANGED <<queueVars, syncVars, monVars, trackerVars, lockVars, autoVars>>

(***************************************************************************)
(* SyncClient                                                              *)
(***************************************************************************)
\* max_retries passed by sync_events to sync_with_retry
MaxRetries == 3
\* the first backoff delay of sync_with_retry, in seconds
InitialDelay == 1

\* SyncResult: Ok(()) or Err(SyncError); NoResult before a call has returned
Ok == [kind |-> "Ok", msg |-> ""]
NoResult == [kind |-> "NoResult", msg |-> ""]
SyncError(kind, msg) == [kind |-> kind, msg |-> msg]
IsErr(r) == r.kind \notin {"Ok", "NoResult"}

\* the Display of SyncError (thiserror #[error(...)])
to_string(e) ==
  CASE e.kind = "Network"    -> "Network error: " \o e.msg
    [] e.kind = "Auth"       -> "Authentication failed: " \o e.msg
    [] e.kind = "Server"     -> "Server error: " \o e.msg
    [] e.kind = "Encryption" -> "Encryption error: " \o e.msg
    [] e.kind = "Database"   -> "Database error: " \o e.msg
    [] e.kind = "Unknown"    -> "Unknown error: " \o e.msg

AlreadyInProgress == SyncError("Unknown", "Sync already in progress")
NotConfigured == SyncError("Unknown", "Server not configured")

\* what the endpoint may do with one request: the transport fails, or it
\* answers with a status and a body that does not parse as SyncResponse, or
\* parses and reports a count of failed events
Responses ==
  {[transport |-> "failed", status |-> 0, body_ok |-> FALSE, failed |-> 0]} \cup
  [transport : {"ok"}, status : {200, 401, 403, 404, 500},
   body_ok : {FALSE}, failed : {0}] \cup
  [transport : {"ok"}, status : {200, 401, 403, 404, 500},
   body_ok : {TRUE}, failed : {0, 1}]

\* the same answers with more of the status codes, and a request that times
\* out (reqwest reports a timeout as an error of send, like a refused
\* connection)
WireResponses ==
  Responses \cup
  {[transport |-> "timeout", status |-> 0, body_ok |-> FALSE, failed |-> 0]} \cup
  [transport : {"ok"}, status : {299, 302, 400, 499, 599, 600},
   body_ok : BOOLEAN, failed : {0}]

\* a build_sync_events that does not look for the key
build_sync_events_unkeyed(key) == Ok

\* build_sync_events: fails when no key is installed
build_sync_events(key) ==
  IF key = None THEN SyncError("Encryption", "Crypto manager not initialized")
  ELSE Ok

\* the timestamp of a StoredEvent read back from its row:
\* DateTime::from_timestamp(millis / 1000, 0), taken as milliseconds again
ReadBack(millis) == (millis \div 1000) * 1000

\* how far ahead of the clock an event's timestamp may be, in milliseconds
Tolerance == 60000

\* a build_sync_events that sends every timestamp as recorded
ClampNever(event_timestamp, now_millis) == event_timestamp

\* build_sync_events: the timestamp put on the wire
Clamp(event_timestamp, now_millis) ==
  IF event_timestamp > now_millis + Tolerance THEN now_millis
  ELSE event_timestamp

\* build_sync_events: the timestamps of the SyncEvents built for a batch
WireTimestamps(rows, batch, now_millis) ==
  [k \in DOMAIN batch |-> Clamp(ReadBack(rows[batch[k]].timestamp), now_millis)]

\* a send_events that takes every answer of the endpoint for a success
send_events_ignores_status(key, resp) ==
  IF IsErr(build_sync_events(key)) THEN build_sync_events(key)
  ELSE IF resp.transport # "ok" THEN SyncError("Network", "Failed to connect: ")
  ELSE Ok

\* a send_events that takes a body that does not parse for a failure of the
\* server, whatever the status
send_events_reads_body(key, resp) ==
  IF IsErr(build_sync_events(key)) THEN build_sync_events(key)
  ELSE IF resp.transport # "ok" THEN SyncError("Network", "Failed to connect: ")
  ELSE IF resp.status \in 200..299 THEN
    IF resp.body_ok THEN Ok
    ELSE SyncError("Unknown", "Failed to parse response: ")
  ELSE IF ~resp.body_ok THEN SyncError("Server", "Server error: ")
  ELSE IF resp.status \in {401, 403} THEN SyncError("Auth", "Authentication failed: ")
  ELSE IF resp.status \in 500..599 THEN SyncError("Server", "Server error: ")
  ELSE SyncError("Unknown", "HTTP " \o ToString(resp.status) \o ": ")

\* a send_events that takes a 2xx answer reporting failed events for a failure
send_events_checks_counts(key, resp) ==
  IF IsErr(build_sync_events(key)) THEN build_sync_events(key)
  ELSE IF resp.transport # "ok" THEN SyncError("Network", "Failed to connect: ")
  ELSE IF resp.status \in 200..299 THEN
    IF resp.body_ok /\ resp.failed = 0 THEN Ok
    ELSE SyncError("Unknown", "Failed to parse response: ")
  ELSE IF resp.status \in {401, 403} THEN SyncError("Auth", "Authentication failed: ")
  ELSE IF resp.status \in 500..599 THEN SyncError("Server", "Server error: ")
  ELSE SyncError("Unknown", "HTTP " \o ToString(resp.status) \o ": ")

\* send_events: the classification of one attempt (the body of the answer,
\* which follows the prefix of each message, is left out)
send_events(key, resp) ==
  IF IsErr(build_sync_events(key)) THEN build_sync_events(key)
  ELSE IF resp.transport # "ok" THEN SyncError("Network", "Failed to connect: ")
  ELSE IF resp.status \in 200..299 THEN
    IF resp.body_ok THEN Ok
    ELSE SyncError("Unknown", "Failed to parse response: ")
  ELSE IF resp.status \in {401, 403} THEN SyncError("Auth", "Authentication failed: ")
  ELSE IF resp.status \in 500..599 THEN SyncError("Server", "Server error: ")
  ELSE SyncError("Unknown", "HTTP " \o ToString(resp.status) \o ": ")

\* a retry loop that never gives up on a retryable failure
RetriesForever(e, attempt, max_retries) == e.kind \in {"Network", "Server"}

\* a retry loop that retries whatever the failure
RetriesAnyError(e, attempt, max_retries) == attempt < max_retries

\* a retry loop that allows one attempt more
RetriesOneMore(e, attempt, max_retries) ==
  /\ attempt <= max_retries
  /\ e.kind \in {"Network", "Server"}

\* sync_with_retry: whether a failed attempt is followed by another one
Retries(e, attempt, max_retries) ==
  /\ attempt < max_retries
  /\ e.kind \in {"Network", "Server"}

\* a caller outside sync_events (failed and sent are not variables of the
\* code: they record the failed count of the answer that made the send
\* succeed, and the timestamps of the events of the last request built)
Idle ==
  [pc |-> "idle", batch |-> <<>>, attempt |-> 0, delay |-> 0, err |-> NoResult,
   failed |-> 0, sent |-> <<>>]

\* SyncClient::new: no key, no cached config, not syncing
SyncInit ==
  /\ crypto = None
  /\ config = None
  /\ is_syncing = FALSE
  /\ reset_tasks = 0
  /\ sync = [c \in SyncCallers |-> Idle]
  /\ returned = NoResult

\* a call is in flight from passing the single-flight guard until it exits
InFlight(c) == sync[c].pc \notin {"idle", "guard"}

\* set_crypto_key
SetCryptoKey ==
  /\ crypto' = "Some"
  /\ UNCHANGED <<config, is_syncing, reset_tasks, sync, returned>>
  /\ UNCHANGED <<storeVars, notSyncVars>>

\* set_config returns the error of the settings write: set_setting(..)?
SetConfigFails(db_ok) == ~db_ok

\* a set_config that updates the cache before it writes the setting
SetConfigCacheFirst(cfg, db_ok) ==
  /\ config' = cfg
  /\ local_settings' = IF db_ok
                       THEN set_setting(local_settings, "server_config", cfg)
                       ELSE local_settings
  /\ UNCHANGED <<crypto, is_syncing, reset_tasks, sync, returned>>
  /\ UNCHANGED <<local_events, sync_state, now, notSyncVars>>

\* set_config: the setting is written first (and may fail), then the cache
SetConfig(cfg, db_ok) ==
  /\ IF db_ok
     THEN /\ local_settings' = set_setting(local_settings, "server_config", cfg)
          /\ config' = cfg
     ELSE UNCHANGED <<local_settings, config>>
  /\ UNCHANGED <<crypto, is_syncing, reset_tasks, sync, returned>>
  /\ UNCHANGED <<local_events, sync_state, now, notSyncVars>>

\* get_config: the stored setting if there is one, else the cached config
get_config ==
  IF local_settings["server_config"] # None THEN local_settings["server_config"]
  ELSE config

\* get_status, were it to run without interruption
get_status ==
  [is_syncing |-> is_syncing,
   last_sync_at |-> sync_state["last_sync_at"],
   pending_events |-> Cardinality(UnsyncedRows(local_events)),
   last_error |-> local_settings["last_sync_error"]]

\* the application is started again: SyncClient::new over the same database
\* (tasks of the old process are gone)
Restart ==
  /\ crypto' = None
  /\ config' = None
  /\ is_syncing' = FALSE
  /\ reset_tasks' = 0
  /\ sync' = [c \in SyncCallers |-> Idle]
  /\ returned' = NoResult
  /\ UNCHANGED <<storeVars, notSyncVars>>

\* sync_now calls sync_events
SyncNow(c) ==
  /\ sync[c].pc = "idle"
  /\ sync' = [sync EXCEPT ![c].pc = "guard"]
  /\ returned' = NoResult
  /\ UNCHANGED <<crypto, config, is_syncing, reset_tasks>>
  /\ UNCHANGED <<storeVars, notSyncVars>>

\* check_and_sync_if_needed(threshold): counts the unsynced rows and calls
\* sync_events when there are at least threshold of them
CheckAndSyncIfNeeded(c, threshold, db_ok) ==
  /\ sync[c].pc = "idle"
  /\ IF ~db_ok
     THEN /\ returned' = SyncError("Database", "Failed to get events: ")
          /\ UNCHANGED sync
     ELSE IF Cardinality(UnsyncedRows(local_events)) >= threshold
     THEN /\ sync' = [sync EXCEPT ![c].pc = "guard"]
          /\ returned' = NoResult
     ELSE /\ returned' = Ok
          /\ UNCHANGED sync
  /\ UNCHANGED <<crypto, config, is_syncing, reset_tasks>>
  /\ UNCHANGED <<storeVars, notSyncVars>>

\* a guard that never looks at the flag
GuardPassesAlways(flag) == TRUE

\* the single-flight guard lets a call pass when no sync is marked running
GuardPasses(flag) == ~flag

\* a guard that is armed before the check, so that a rejected call clears
\* the flag of the running sync when it returns
SyncGuardArmedFirst(c) ==
  /\ sync[c].pc = "guard"
  /\ IF GuardPasses(is_syncing)
     THEN /\ is_syncing' = TRUE
          /\ sync' = [sync EXCEPT ![c].pc = "get_config"]
          /\ UNCHANGED returned
     ELSE /\ is_syncing' = FALSE
          /\ sync' = [sync EXCEPT ![c] = Idle]
          /\ returned' = AlreadyInProgress
  /\ UNCHANGED <<crypto, config, reset_tasks>>
  /\ UNCHANGED <<storeVars, notSyncVars>>

\* sync_events, the check under the is_syncing lock: a call that finds the
\* flag set returns at once; a call that passes sets it
SyncGuard(c) ==
  /\ sync[c].pc = "guard"
  /\ IF GuardPasses(is_syncing)
     THEN /\ is_syncing' = TRUE
          /\ sync' = [sync EXCEPT ![c].pc = "get_config"]
          /\ UNCHANGED returned
     ELSE /\ is_syncing' = is_syncing
          /\ sync' = [sync EXCEPT ![c] = Idle]
          /\ returned' = AlreadyInProgress
  /\ UNCHANGED <<crypto, config, reset_tasks>>
  /\ UNCHANGED <<storeVars, notSyncVars>>

\* a scope guard that is dropped without spawning the reset task
GuardDropLost(n) == n

\* the scope guard dropped when sync_events exits: it spawns a task that
\* will clear is_syncing
GuardDrop(n) == n + 1

\* sync_events returns result after passing the guard
Exit(c, result) ==
  /\ sync' = [sync EXCEPT ![c] = Idle]
  /\ returned' = result
  /\ reset_tasks' = GuardDrop(reset_tasks)

\* the task spawned by the scope guard runs: *syncing = false
ResetTask ==
  /\ reset_tasks > 0
  /\ reset_tasks' = reset_tasks - 1
  /\ is_syncing' = FALSE
  /\ UNCHANGED <<crypto, config, sync, returned>>
  /\ UNCHANGED <<storeVars, notSyncVars>>

\* a sync_events that goes on to read the events whatever get_config returns
SyncGetConfigUnchecked(c) ==
  /\ sync[c].pc = "get_config"
  /\ sync' = [sync EXCEPT ![c].pc = "read"]
  /\ UNCHANGED <<crypto, config, is_syncing, reset_tasks, returned>>
  /\ UNCHANGED <<storeVars, notSyncVars>>

\* sync_events: load the server configuration
SyncGetConfig(c) ==
  /\ sync[c].pc = "get_config"
  /\ IF get_config = None
     THEN Exit(c, NotConfigured)
     ELSE /\ sync' = [sync EXCEPT ![c].pc = "read"]
          /\ UNCHANGED <<reset_tasks, returned>>
  /\ UNCHANGED <<crypto, config, is_syncing>>
  /\ UNCHANGED <<storeVars, notSyncVars>>

\* the batch of sync_events: events.into_iter().take(100)
Batch(read) == SubSeq(read, 1, Min(BatchLimit, Len(read)))

\* sync_events without the early return on an empty read
SyncReadSendsAnyway(c, db_ok) ==
  /\ sync[c].pc = "read"
  /\ IF ~db_ok
     THEN Exit(c, SyncError("Database", "Failed to get events: "))
     ELSE \E read \in get_unsynced_events_sync(local_events) :
            /\ sync' = [sync EXCEPT ![c].pc = "send",
                                    ![c].batch = Batch(read),
                                    ![c].attempt = 0,
                                    ![c].delay = InitialDelay]
            /\ UNCHANGED <<reset_tasks, returned>>
  /\ UNCHANGED <<crypto, config, is_syncing>>
  /\ UNCHANGED <<storeVars, notSyncVars>>

\* sync_events: read the unsynced events and cut the batch
SyncRead(c, db_ok) ==
  /\ sync[c].pc = "read"
  /\ IF ~db_ok
     THEN Exit(c, SyncError("Database", "Failed to get events: "))
     ELSE \E read \in get_unsynced_events_sync(local_events) :
            IF read = <<>>
            THEN Exit(c, Ok)
            ELSE /\ sync' = [sync EXCEPT ![c].pc = "send",
                                         ![c].batch = Batch(read),
                                         ![c].attempt = 0,
                                         ![c].delay = InitialDelay]
                 /\ UNCHANGED <<reset_tasks, returned>>
  /\ UNCHANGED <<crypto, config, is_syncing>>
  /\ UNCHANGED <<storeVars, notSyncVars>>

\* sync_with_retry: one attempt, and what follows it
SyncSend(c, resp) ==
  /\ sync[c].pc = "send"
  /\ LET attempt == sync[c].attempt + 1
         r == send_events(crypto, resp)
     IN sync' = [sync EXCEPT
          ![c].attempt = attempt,
          ![c].err = IF IsErr(r) /\ ~Retries(r, attempt, MaxRetries)
                     THEN r ELSE NoResult,
          ![c].failed = IF IsErr(r) THEN 0 ELSE resp.failed,
          ![c].sent = IF IsErr(build_sync_events(crypto)) THEN <<>>
                      ELSE WireTimestamps(local_events, sync[c].batch, now),
          ![c].pc = IF ~IsErr(r) THEN "mark"
                    ELSE IF Retries(r, attempt, MaxRetries) THEN "backoff"
                    ELSE "failed"]
  /\ UNCHANGED <<crypto, config, is_syncing, reset_tasks, returned>>
  /\ UNCHANGED <<storeVars, notSyncVars>>

\* sync_with_retry: sleep(delay); delay = delay.saturating_mul(2)
SyncBackoff(c) ==
  /\ sync[c].pc = "backoff"
  /\ sync' = [sync EXCEPT ![c].pc = "send", ![c].delay = 2 * sync[c].delay]
  /\ UNCHANGED <<crypto, config, is_syncing, reset_tasks, returned>>
  /\ UNCHANGED <<storeVars, notSyncVars>>

\* sync_events, Ok branch: mark the batch as synced
SyncMark(c, db_ok) ==
  /\ sync[c].pc = "mark"
  /\ IF db_ok
     THEN /\ local_events' = mark_as_synced(local_events, sync[c].batch)
          /\ sync' = [sync EXCEPT ![c].pc = "state"]
          /\ UNCHANGED <<reset_tasks, returned>>
     ELSE /\ Exit(c, SyncError("Database", "Failed to mark as synced: "))
          /\ UNCHANGED local_events
  /\ UNCHANGED <<crypto, config, is_syncing>>
  /\ UNCHANGED <<local_settings, sync_state, now, notSyncVars>>

\* sync_events, Ok branch: record the last sync time
SyncUpdateState(c, db_ok) ==
  /\ sync[c].pc = "state"
  /\ IF db_ok
     THEN /\ sync_state' = set_setting(sync_state, "last_sync_at", <<now>>)
          /\ sync' = [sync EXCEPT ![c].pc = "clear"]
          /\ UNCHANGED <<reset_tasks, returned>>
     ELSE /\ Exit(c, SyncError("Database", "Failed to update sync state: "))
          /\ UNCHANGED sync_state
  /\ UNCHANGED <<crypto, config, is_syncing>>
  /\ UNCHANGED <<local_events, local_settings, now, notSyncVars>>

\* an Ok branch that returns without clearing the last error
SyncClearErrorSkipped(c, db_ok) ==
  /\ sync[c].pc = "clear"
  /\ Exit(c, Ok)
  /\ UNCHANGED <<crypto, config, is_syncing>>
  /\ UNCHANGED <<storeVars, notSyncVars>>

\* sync_events, Ok branch: clear the last error (a failure to write is
\* ignored) and return Ok
SyncClearError(c, db_ok) ==
  /\ sync[c].pc = "clear"
  /\ local_settings' = IF db_ok
                       THEN set_setting(local_settings, "last_sync_error", "")
                       ELSE local_settings
  /\ Exit(c, Ok)
  /\ UNCHANGED <<crypto, config, is_syncing>>
  /\ UNCHANGED <<local_events, sync_state, now, notSyncVars>>

\* sync_events, Err branch: store the error text (a failure to write is
\* ignored) and return the error
SyncStoreError(c, db_ok) ==
  /\ sync[c].pc = "failed"
  /\ local_settings' = IF db_ok
                       THEN set_setting(local_settings, "last_sync_error",
                                        to_string(sync[c].err))
                       ELSE local_settings
  /\ Exit(c, sync[c].err)
  /\ UNCHANGED <<crypto, config, is_syncing>>
  /\ UNCHANGED <<local_events, sync_state, now, notSyncVars>>

SyncNext ==
  \/ \E w \in CapturedWindows : StoreEvent(w)
  \/ SetCryptoKey
  \/ \E cfg \in Configs, db_ok \in BOOLEAN : SetConfig(cfg, db_ok)
  \/ \E c \in SyncCallers : SyncNow(c)
  \/ \E c \in SyncCallers, threshold \in 1..BatchLimit, db_ok \in BOOLEAN :
       CheckAndSyncIfNeeded(c, threshold, db_ok)
  \/ \E c \in SyncCallers : SyncGuard(c)
  \/ \E c \in SyncCallers : SyncGetConfig(c)
  \/ \E c \in SyncCallers, db_ok \in BOOLEAN : SyncRead(c, db_ok)
  \/ \E c \in SyncCallers, resp \in Responses : SyncSend(c, resp)
  \/ \E c \in SyncCallers : SyncBackoff(c)
  \/ \E c \in SyncCallers, db_ok \in BOOLEAN : SyncMark(c, db_ok)
  \/ \E c \in SyncCallers, db_ok \in BOOLEAN : SyncUpdateState(c, db_ok)
  \/ \E c \in SyncCallers, db_ok \in BOOLEAN : SyncClearError(c, db_ok)
  \/ \E c \in SyncCallers, db_ok \in BOOLEAN : SyncStoreError(c, db_ok)
  \/ ResetTask

(***************************************************************************)
(* SyncClient: the mutexes (tokio::sync::Mutex) of is_syncing, config and  *)
(* crypto, with every lock().await and every drop of a guard as a step     *)
(***************************************************************************)
\* the mutexes of SyncClient that guard the flag, the cached configuration
\* and the cached key
Locks == {"is_syncing", "config", "crypto"}
\* the callers of get_status, set_config and set_crypto_key
ApiCallers == {"get_status", "set_config", "set_crypto_key"}
\* the mutex each of them takes
LockOf(t) ==
  CASE t = "get_status"     -> "is_syncing"
    [] t = "set_config"     -> "config"
    [] t = "set_crypto_key" -> "crypto"

\* SyncClient::new: every mutex free, no call in progress
LockInit ==
  /\ guards = [l \in Locks |-> None]
  /\ task = [t \in ApiCallers |-> "idle"]

\* lock().await returns: the mutex was free and the task now holds its guard
Acquire(l, owner) ==
  /\ guards[l] = None
  /\ guards' = [guards EXCEPT ![l] = owner]

\* the guard goes out of scope
Release(l) == guards' = [guards EXCEPT ![l] = None]

\* sync_events is called
SyncEventsCall(c) ==
  /\ sync[c].pc = "idle"
  /\ sync' = [sync EXCEPT ![c].pc = "flag_lock"]
  /\ returned' = NoResult
  /\ UNCHANGED <<crypto, config, is_syncing, reset_tasks>>
  /\ UNCHANGED <<storeVars, notSyncVars>>

\* sync_events: self.is_syncing.lock().await
FlagLock(c) ==
  /\ sync[c].pc = "flag_lock"
  /\ Acquire("is_syncing", c)
  /\ sync' = [sync EXCEPT ![c].pc = "flag_held"]
  /\ UNCHANGED <<crypto, config, is_syncing, reset_tasks, returned, task>>
  /\ UNCHANGED <<storeVars, queueVars, monVars, trackerVars, autoVars>>

\* sync_events: the block under the is_syncing guard; the guard is dropped at
\* the end of the block, and on the early return
FlagCheck(c) ==
  /\ sync[c].pc = "flag_held"
  /\ Release("is_syncing")
  /\ IF GuardPasses(is_syncing)
     THEN /\ is_syncing' = TRUE
          /\ sync' = [sync EXCEPT ![c].pc = "config_read"]
          /\ UNCHANGED returned
     ELSE /\ is_syncing' = is_syncing
          /\ sync' = [sync EXCEPT ![c] = Idle]
          /\ returned' = AlreadyInProgress
  /\ UNCHANGED <<crypto, config, reset_tasks, task>>
  /\ UNCHANGED <<storeVars, queueVars, monVars, trackerVars, autoVars>>

\* get_config: the stored setting is read first; the config mutex is taken
\* only when there is none
ConfigRead(c) ==
  /\ sync[c].pc = "config_read"
  /\ sync' = [sync EXCEPT ![c].pc =
                IF local_settings["server_config"] # None THEN "events_read"
                ELSE "config_lock"]
  /\ UNCHANGED <<crypto, config, is_syncing, reset_tasks, returned>>
  /\ UNCHANGED <<storeVars, notSyncVars>>

\* get_config: self.config.lock().await
ConfigLock(c) ==
  /\ sync[c].pc = "config_lock"
  /\ Acquire("config", c)
  /\ sync' = [sync EXCEPT ![c].pc = "config_held"]
  /\ UNCHANGED <<crypto, config, is_syncing, reset_tasks, returned, task>>
  /\ UNCHANGED <<storeVars, queueVars, monVars, trackerVars, autoVars>>

\* get_config: Ok(config_guard.clone()); the guard is dropped at the return
ConfigClone(c) ==
  /\ sync[c].pc = "config_held"
  /\ Release("config")
  /\ IF config = None
     THEN Exit(c, NotConfigured)
     ELSE /\ sync' = [sync EXCEPT ![c].pc = "events_read"]
          /\ UNCHANGED <<reset_tasks, returned>>
  /\ UNCHANGED <<crypto, config, is_syncing, task>>
  /\ UNCHANGED <<storeVars, queueVars, monVars, trackerVars, autoVars>>

\* sync_events: read the unsynced events and cut the batch
EventsRead(c) ==
  /\ sync[c].pc = "events_read"
  /\ \E read \in get_unsynced_events_sync(local_events) :
       IF read = <<>>
       THEN Exit(c, Ok)
       ELSE /\ sync' = [sync EXCEPT ![c].pc = "crypto_lock",
                                    ![c].batch = Batch(read),
                                    ![c].attempt = 0,
                                    ![c].delay = InitialDelay]
            /\ UNCHANGED <<reset_tasks, returned>>
  /\ UNCHANGED <<crypto, config, is_syncing>>
  /\ UNCHANGED <<storeVars, notSyncVars>>

\* sync_with_retry: attempt += 1; send_events calls build_sync_events, which
\* begins with self.crypto.lock().await
CryptoLock(c) ==
  /\ sync[c].pc = "crypto_lock"
  /\ Acquire("crypto", c)
  /\ sync' = [sync EXCEPT ![c].pc = "crypto_held",
                          ![c].attempt = sync[c].attempt + 1]
  /\ UNCHANGED <<crypto, config, is_syncing, reset_tasks, returned, task>>
  /\ UNCHANGED <<storeVars, queueVars, monVars, trackerVars, autoVars>>

\* a build_sync_events whose guard outlives it: the request is sent with the
\* crypto mutex held
BuildSyncEventsKeepsGuard(c) ==
  /\ sync[c].pc = "crypto_held"
  /\ sync' = [sync EXCEPT
       ![c].pc = IF IsErr(build_sync_events(crypto)) THEN "finish" ELSE "request",
       ![c].err = build_sync_events(crypto)]
  /\ UNCHANGED <<crypto, config, is_syncing, reset_tasks, returned>>
  /\ UNCHANGED <<storeVars, notSyncVars>>

\* build_sync_events under the crypto guard: the events are encrypted
\* without a suspension; the guard is a local of build_sync_events and is
\* dropped when it returns, with the events or with the error, before
\* send_events builds the request
BuildSyncEvents(c) ==
  /\ sync[c].pc = "crypto_held"
  /\ Release("crypto")
  /\ sync' = [sync EXCEPT
       ![c].pc = IF IsErr(build_sync_events(crypto)) THEN "finish" ELSE "request",
       ![c].err = build_sync_events(crypto)]
  /\ UNCHANGED <<crypto, config, is_syncing, reset_tasks, returned, task>>
  /\ UNCHANGED <<storeVars, queueVars, monVars, trackerVars, autoVars>>

\* send_events: the request is in flight until the endpoint answers or the
\* transport gives up; sync_with_retry then returns or goes to sleep
HttpAnswer(c, resp) ==
  /\ sync[c].pc = "request"
  /\ LET r == send_events("Some", resp)
     IN sync' = [sync EXCEPT
          ![c].err = r,
          ![c].pc = IF IsErr(r) /\ Retries(r, sync[c].attempt, MaxRetries)
                    THEN "sleeping" ELSE "finish"]
  /\ UNCHANGED <<crypto, config, is_syncing, reset_tasks, returned>>
  /\ UNCHANGED <<storeVars, notSyncVars>>

\* sync_with_retry: the sleep is over; the next attempt begins
BackoffEnd(c) ==
  /\ sync[c].pc = "sleeping"
  /\ sync' = [sync EXCEPT ![c].pc = "crypto_lock", ![c].delay = 2 * sync[c].delay]
  /\ UNCHANGED <<crypto, config, is_syncing, reset_tasks, returned>>
  /\ UNCHANGED <<storeVars, notSyncVars>>

\* sync_events, after sync_with_retry: the writes of the Ok branch or of the
\* Err branch (none of them takes a mutex of SyncClient), and the return
Finish(c) ==
  /\ sync[c].pc = "finish"
  /\ IF IsErr(sync[c].err)
     THEN /\ local_settings' = set_setting(local_settings, "last_sync_error",
                                           to_string(sync[c].err))
          /\ UNCHANGED <<local_events, sync_state>>
     ELSE /\ local_events' = mark_as_synced(local_events, sync[c].batch)
          /\ sync_state' = set_setting(sync_state, "last_sync_at", <<now>>)
          /\ local_settings' = set_setting(local_settings, "last_sync_error", "")
  /\ Exit(c, sync[c].err)
  /\ UNCHANGED <<crypto, config, is_syncing>>
  /\ UNCHANGED <<now, notSyncVars>>

\* the task spawned by the scope guard: is_syncing.lock().await; *syncing =
\* false (it runs once the mutex is free)
ResetTaskLocked ==
  /\ guards["is_syncing"] = None
  /\ ResetTask

\* get_status, set_config or set_crypto_key is called; set_config writes the
\* setting before it takes the mutex
ApiCall(t) ==
  /\ task[t] = "idle"
  /\ task' = [task EXCEPT ![t] = "lock"]
  /\ local_settings' = IF t = "set_config"
                       THEN set_setting(local_settings, "server_config", "cfg1")
                       ELSE local_settings
  /\ UNCHANGED <<local_events, sync_state, now, guards>>
  /\ UNCHANGED <<syncVars, queueVars, monVars, trackerVars, autoVars>>

\* the lock().await of the call returns
ApiLock(t) ==
  /\ task[t] = "lock"
  /\ Acquire(LockOf(t), t)
  /\ task' = [task EXCEPT ![t] = "held"]
  /\ UNCHANGED <<syncVars, storeVars, queueVars, monVars, trackerVars, autoVars>>

\* the call reads or writes the value under its guard, drops the guard and
\* returns (get_status goes on to read the store)
ApiReturn(t) ==
  /\ task[t] = "held"
  /\ Release(LockOf(t))
  /\ task' = [task EXCEPT ![t] = "idle"]
  /\ config' = IF t = "set_config" THEN "cfg1" ELSE config
  /\ crypto' = IF t = "set_crypto_key" THEN "Some" ELSE crypto
  /\ UNCHANGED <<is_syncing, reset_tasks, sync, returned>>
  /\ UNCHANGED <<storeVars, queueVars, monVars, trackerVars, autoVars>>

\* the answers that make sync_with_retry succeed, give up at once and retry
LockAnswers ==
  {r \in Responses :
     \/ r.transport = "failed"
     \/ r.status \in {200, 401} /\ r.body_ok /\ r.failed = 0}

\* the capture stores the first event
StoreFirstEvent(w) == local_events = <<>> /\ StoreEvent(w)

\* one sync_events caller with one event to send, beside callers of
\* get_status, set_config and set_crypto_key
LockNext ==
  \/ \E w \in CapturedWindows : StoreFirstEvent(w)
  \/ SyncEventsCall("s1")
  \/ FlagLock("s1")
  \/ FlagCheck("s1")
  \/ ConfigRead("s1")
  \/ ConfigLock("s1")
  \/ ConfigClone("s1")
  \/ EventsRead("s1")
  \/ CryptoLock("s1")
  \/ BuildSyncEvents("s1")
  \/ \E resp \in LockAnswers : HttpAnswer("s1", resp)
  \/ BackoffEnd("s1")
  \/ Finish("s1")
  \/ ResetTaskLocked
  \/ \E t \in ApiCallers : ApiCall(t)
  \/ \E t \in ApiCallers : ApiLock(t)
  \/ \E t \in ApiCallers : ApiReturn(t)

(***************************************************************************)
(* SyncClient: the auto-sync scheduler                                     *)
(***************************************************************************)
\* tasks calling start_auto_sync and stop_auto_sync concurrently
AutoCallers == {"a1", "a2"}

\* a caller outside start_auto_sync
NoStart == [pc |-> "idle", handle |-> 0]

\* SyncClient::new: auto_sync_handle = None, no ticker task
AutoInit ==
  /\ auto_sync_handle = 0
  /\ tickers = {}
  /\ spawned = 0
  /\ auto = [a \in AutoCallers |-> NoStart]

\* handle_guard.take() and handle.abort() under the auto_sync_handle mutex:
\* the ticker task of the stored handle, if there is one, is cancelled
Aborted(alive, handle) == alive \ {handle}

\* stop_auto_sync, called on its own
StopAutoSync(a) ==
  /\ auto[a].pc = "idle"
  /\ tickers' = Aborted(tickers, auto_sync_handle)
  /\ auto_sync_handle' = 0
  /\ UNCHANGED <<spawned, auto>>
  /\ UNCHANGED <<queueVars, storeVars, syncVars, monVars, trackerVars, lockVars>>

\* start_auto_sync(config): self.stop_auto_sync().await, then the return
\* when auto-sync is disabled
StartAutoSyncStop(a, auto_sync_enabled) ==
  /\ auto[a].pc = "idle"
  /\ tickers' = Aborted(tickers, auto_sync_handle)
  /\ auto_sync_handle' = 0
  /\ auto' = [auto EXCEPT ![a].pc = IF auto_sync_enabled THEN "spawn" ELSE "idle"]
  /\ UNCHANGED spawned
  /\ UNCHANGED <<queueVars, storeVars, syncVars, monVars, trackerVars, lockVars>>

\* start_auto_sync: let handle = tokio::spawn(..): a new ticker task runs
StartAutoSyncSpawn(a) ==
  /\ auto[a].pc = "spawn"
  /\ spawned < MaxTickers
  /\ spawned' = spawned + 1
  /\ tickers' = tickers \cup {spawned + 1}
  /\ auto' = [auto EXCEPT ![a] = [pc |-> "store", handle |-> spawned + 1]]
  /\ UNCHANGED auto_sync_handle
  /\ UNCHANGED <<queueVars, storeVars, syncVars, monVars, trackerVars, lockVars>>

\* start_auto_sync: auto_sync_handle.lock().await; *sync_handle =
\* Some(handle): a handle stored before is dropped, which detaches its task
\* without cancelling it
StartAutoSyncStore(a) ==
  /\ auto[a].pc = "store"
  /\ auto_sync_handle' = auto[a].handle
  /\ auto' = [auto EXCEPT ![a] = NoStart]
  /\ UNCHANGED <<tickers, spawned>>
  /\ UNCHANGED <<queueVars, storeVars, syncVars, monVars, trackerVars, lockVars>>

\* a ticker task: one round of its loop (it skips the round when a sync is
\* running, else counts the unsynced events and logs; it calls no sync)
Tick(k) ==
  /\ k \in tickers
  /\ UNCHANGED vars

AutoNext ==
  \/ \E a \in AutoCallers : StopAutoSync(a)
  \/ \E a \in AutoCallers, auto_sync_enabled \in BOOLEAN :
       StartAutoSyncStop(a, auto_sync_enabled)
  \/ \E a \in AutoCallers : StartAutoSyncSpawn(a)
  \/ \E a \in AutoCallers : StartAutoSyncStore(a)
  \/ \E k \in 1..MaxTickers : Tick(k)

(***************************************************************************)
(* Collector: start, stop and the polling loop                             *)
(***************************************************************************)
\* the idle threshold the loop passes to is_idle, in seconds
IdleThreshold == 300

\* idle durations the OS may report, in milliseconds
IdleMillis == {0, 300000, 300001}
\* what the idle query returns: a failure, or the idle duration
IdleResults ==
  {[ok |-> FALSE, millis |-> 0]} \cup [ok : {TRUE}, millis : IdleMillis]

\* an idle check that never finds the user idle
is_idle_never(idle_millis, threshold) == FALSE

\* IdleDetector::is_idle(threshold), given the idle time the OS reports
is_idle(idle_millis, threshold) == idle_millis > threshold * 1000

\* a polling loop task that does not exist: not spawned yet, or ended
\* (prev is not a variable of the code: it records the process name the
\* loop's previous successful probe returned)
NoLoop ==
  [pc |-> "none", last_window |-> None, window_info |-> NoWindow, prev |-> None]

\* the display string format!("{} - {}", process_name, window_title)
Display(w) == w.process_name \o " - " \o w.window_title

\* Collector::new
MonInit ==
  /\ is_running = FALSE
  /\ is_running_lock = None
  /\ events_collected = 0
  /\ active_window = None
  /\ active_window_lock = 0
  /\ loops = [i \in LoopIds |-> NoLoop]
  /\ mon = [m \in MonCallers |-> "idle"]

\* the polling loops that have been spawned and have not ended
Alive == {i \in LoopIds : loops[i].pc # "none"}

\* a caller of start or stop that is not inside a call: it has made none yet,
\* or its last call has returned ("noop": a start that found the flag set)
Callable == {"idle", "noop"}

\* a start that does not look at the flag
AlreadyRunningIgnored(flag) == FALSE

\* start finds the collector running: if *is_running { return Ok(()) }
AlreadyRunning(flag) == flag

\* start, once it has the is_running lock: return if running, else set the
\* flag; the lock is released before the spawn
StartLocked(m) ==
  /\ is_running_lock = None
  /\ IF AlreadyRunning(is_running)
     THEN /\ mon' = [mon EXCEPT ![m] = "noop"]
          /\ UNCHANGED is_running
     ELSE /\ Cardinality(Alive) + Cardinality({n \in MonCallers : mon[n] = "spawn"})
               < Cardinality(LoopIds)
          /\ is_running' = TRUE
          /\ mon' = [mon EXCEPT ![m] = "spawn"]
  /\ UNCHANGED <<is_running_lock, events_collected, active_window,
                 active_window_lock, loops>>
  /\ UNCHANGED <<storeVars, notMonVars>>

\* start, from the call to the release of the is_running lock
StartCheck(m) == mon[m] \in Callable /\ StartLocked(m)

\* start is called and waits for the is_running lock
StartCall(m) ==
  /\ mon[m] \in Callable
  /\ mon' = [mon EXCEPT ![m] = "start_call"]
  /\ UNCHANGED <<is_running, is_running_lock, events_collected, active_window,
                 active_window_lock, loops>>
  /\ UNCHANGED <<storeVars, notMonVars>>

\* start gets the is_running lock
StartEnter(m) == mon[m] = "start_call" /\ StartLocked(m)

\* start: tokio::spawn of the polling loop, with last_window = None
StartSpawn(m) ==
  /\ mon[m] = "spawn"
  /\ LET i == CHOOSE j \in LoopIds \ Alive : \A k \in LoopIds \ Alive : j <= k
     IN loops' = [loops EXCEPT ![i] = [NoLoop EXCEPT !.pc = "check"]]
  /\ mon' = [mon EXCEPT ![m] = "idle"]
  /\ UNCHANGED <<is_running, is_running_lock, events_collected, active_window,
                 active_window_lock>>
  /\ UNCHANGED <<storeVars, notMonVars>>

\* stop, once the is_running lock is free: take it and clear the flag; the
\* lock stays held
StopLocked(m) ==
  /\ is_running_lock = None
  /\ is_running' = FALSE
  /\ is_running_lock' = m
  /\ mon' = [mon EXCEPT ![m] = "stop_active"]
  /\ UNCHANGED <<events_collected, active_window, active_window_lock, loops>>
  /\ UNCHANGED <<storeVars, notMonVars>>

\* stop, from the call to the clearing of the flag
StopFlag(m) == mon[m] \in Callable /\ StopLocked(m)

\* stop is called and waits for the is_running lock
StopCall(m) ==
  /\ mon[m] \in Callable
  /\ mon' = [mon EXCEPT ![m] = "stop_call"]
  /\ UNCHANGED <<is_running, is_running_lock, events_collected, active_window,
                 active_window_lock, loops>>
  /\ UNCHANGED <<storeVars, notMonVars>>

\* stop gets the is_running lock
StopEnter(m) == mon[m] = "stop_call" /\ StopLocked(m)

\* stop: take the active_window lock, clear the display string, return
StopActive(m) ==
  /\ mon[m] = "stop_active"
  /\ active_window_lock = 0
  /\ active_window' = None
  /\ is_running_lock' = None
  /\ mon' = [mon EXCEPT ![m] = "idle"]
  /\ UNCHANGED <<is_running, events_collected, active_window_lock, loops>>
  /\ UNCHANGED <<storeVars, notMonVars>>

\* Collector::get_status, were it to run without interruption: the
\* CollectorStatus it returns
CollectorStatus ==
  [is_running |-> is_running,
   events_collected |-> events_collected,
   last_sync_at |-> sync_state["last_sync_at"],
   active_window |-> active_window]

\* a step of get_status from position "from" to position "to": nothing but
\* the position of the caller changes (the call only reads)
StatusStep(m, from, to) ==
  /\ mon[m] \in from
  /\ mon' = [mon EXCEPT ![m] = to]
  /\ UNCHANGED <<is_running, is_running_lock, events_collected, active_window,
                 active_window_lock, loops>>
  /\ UNCHANGED <<storeVars, notMonVars>>

\* get_status is called and waits for the is_running lock
GetStatusCall(m) == StatusStep(m, Callable, "status_call")

\* a get_status that reads the flag without waiting for its lock
GetStatusRunningUnlocked(m) == StatusStep(m, {"status_call"}, "status_count")

\* get_status: *self.is_running.lock().await; the guard is a temporary of
\* the statement
GetStatusRunning(m) ==
  is_running_lock = None /\ StatusStep(m, {"status_call"}, "status_count")

\* get_status: *self.events_collected.lock().await (no task keeps this lock
\* across a suspension point)
GetStatusCount(m) == StatusStep(m, {"status_count"}, "status_active")

\* get_status: self.active_window.lock().await.clone()
GetStatusActive(m) ==
  active_window_lock = 0 /\ StatusStep(m, {"status_active"}, "status_db")

\* get_status: db.get_last_sync_time().await, then the status is returned
GetStatusReturn(m) == StatusStep(m, {"status_db"}, "idle")

\* the outcome of the idle check of one iteration: should_wait
ShouldWait(idle) == idle.ok /\ is_idle(idle.millis, IdleThreshold)

\* a loop that reads the cleared flag and goes on polling
LoopNeverEnds(i) ==
  /\ loops[i].pc = "check"
  /\ is_running_lock = None
  /\ ~is_running
  /\ UNCHANGED vars

\* loop, top of an iteration: break when the flag is cleared
LoopEnd(i) ==
  /\ loops[i].pc = "check"
  /\ is_running_lock = None
  /\ ~is_running
  /\ loops' = [loops EXCEPT ![i] = NoLoop]
  /\ UNCHANGED <<is_running, is_running_lock, events_collected, active_window,
                 active_window_lock, mon>>
  /\ UNCHANGED <<storeVars, notMonVars>>

\* loop, an iteration that finds the user idle: it goes to sleep for 5 s
\* without probing
LoopIdle(i, idle) ==
  /\ loops[i].pc = "check"
  /\ is_running_lock = None
  /\ is_running
  /\ ShouldWait(idle)
  /\ loops' = [loops EXCEPT ![i].pc = "idle_wait"]
  /\ UNCHANGED <<is_running, is_running_lock, events_collected, active_window,
                 active_window_lock, mon>>
  /\ UNCHANGED <<storeVars, notMonVars>>

\* loop: the idle sleep is over; continue with the next iteration
LoopWake(i) ==
  /\ loops[i].pc = "idle_wait"
  /\ loops' = [loops EXCEPT ![i].pc = "check"]
  /\ UNCHANGED <<is_running, is_running_lock, events_collected, active_window,
                 active_window_lock, mon>>
  /\ UNCHANGED <<storeVars, notMonVars>>

\* a loop that forgets the last recorded process name when a probe fails
LoopProbeFailedForgets(i, idle) ==
  /\ loops[i].pc = "check"
  /\ is_running_lock = None
  /\ is_running
  /\ ~ShouldWait(idle)
  /\ loops' = [loops EXCEPT ![i].last_window = None, ![i].prev = None]
  /\ UNCHANGED <<is_running, is_running_lock, events_collected, active_window,
                 active_window_lock, mon>>
  /\ UNCHANGED <<storeVars, notMonVars>>

\* loop, an iteration whose probe fails: log, sleep 1 s, next iteration
LoopProbeFailed(i, idle) ==
  /\ loops[i].pc = "check"
  /\ is_running_lock = None
  /\ is_running
  /\ ~ShouldWait(idle)
  /\ UNCHANGED loops
  /\ UNCHANGED <<is_running, is_running_lock, events_collected, active_window,
                 active_window_lock, mon>>
  /\ UNCHANGED <<storeVars, notMonVars>>

\* a comparison that takes every probe for a change
WindowChangedAlways(last_window, w) == TRUE

\* the comparison of the loop: last_window != Some(process_name)
WindowChanged(last_window, w) == last_window # w.process_name

\* loop, an iteration whose probe succeeds: an unchanged process name sleeps
\* 1 s and starts the next iteration, a changed one goes on to count and
\* store it
LoopProbe(i, idle, w) ==
  /\ loops[i].pc = "check"
  /\ is_running_lock = None
  /\ is_running
  /\ ~ShouldWait(idle)
  /\ IF WindowChanged(loops[i].last_window, w)
     THEN /\ events_collected < MaxEvents
          /\ loops' = [loops EXCEPT ![i].pc = "count", ![i].window_info = w,
                                    ![i].prev = w.process_name]
     ELSE loops' = [loops EXCEPT ![i].prev = w.process_name]
  /\ UNCHANGED <<is_running, is_running_lock, events_collected, active_window,
                 active_window_lock, mon>>
  /\ UNCHANGED <<storeVars, notMonVars>>

\* loop: *count += 1; last_window = current_window
LoopCount(i) ==
  /\ loops[i].pc = "count"
  /\ events_collected' = events_collected + 1
  /\ loops' = [loops EXCEPT ![i].pc = "active",
                            ![i].last_window = loops[i].window_info.process_name]
  /\ UNCHANGED <<is_running, is_running_lock, active_window,
                 active_window_lock, mon>>
  /\ UNCHANGED <<storeVars, notMonVars>>

\* loop: take the active_window lock and set the display string; the lock
\* stays held while the event is stored
LoopActive(i) ==
  /\ loops[i].pc = "active"
  /\ active_window_lock = 0
  /\ active_window_lock' = i
  /\ active_window' = Display(loops[i].window_info)
  /\ loops' = [loops EXCEPT ![i].pc = "store"]
  /\ UNCHANGED <<is_running, is_running_lock, events_collected, mon>>
  /\ UNCHANGED <<storeVars, notMonVars>>

\* a loop that forgets the process name when the write fails, so that the
\* next tick takes the same window for a change again
LoopStoreForgets(i, db_ok) ==
  /\ loops[i].pc = "store"
  /\ local_events' = IF db_ok
                     THEN store_event_sync(local_events, now, loops[i].window_info)
                     ELSE local_events
  /\ active_window_lock' = 0
  /\ loops' = [loops EXCEPT ![i].pc = "check", ![i].window_info = NoWindow,
                            ![i].last_window = IF db_ok THEN @ ELSE None]
  /\ UNCHANGED <<is_running, is_running_lock, events_collected, active_window,
                 mon>>
  /\ UNCHANGED <<local_settings, sync_state, now, notMonVars>>

\* a loop whose store write never completes: the active_window guard is
\* never dropped
LoopStoreHangs(i, db_ok) ==
  /\ loops[i].pc = "store"
  /\ UNCHANGED vars

\* loop: db.store_event(&window_info).await, which may fail; then the
\* active_window lock is released and the loop sleeps 1 s
LoopStore(i, db_ok) ==
  /\ loops[i].pc = "store"
  /\ local_events' = IF db_ok
                     THEN store_event_sync(local_events, now, loops[i].window_info)
                     ELSE local_events
  /\ active_window_lock' = 0
  /\ loops' = [loops EXCEPT ![i].pc = "check", ![i].window_info = NoWindow]
  /\ UNCHANGED <<is_running, is_running_lock, events_collected, active_window,
                 mon>>
  /\ UNCHANGED <<local_settings, sync_state, now, notMonVars>>

MonNext ==
  \/ \E m \in MonCallers : StartCheck(m)
  \/ \E m \in MonCallers : StartSpawn(m)
  \/ \E m \in MonCallers : StopFlag(m)
  \/ \E m \in MonCallers : StopActive(m)
  \/ \E i \in LoopIds : LoopEnd(i)
  \/ \E i \in LoopIds, idle \in IdleResults : LoopIdle(i, idle)
  \/ \E i \in LoopIds : LoopWake(i)
  \/ \E i \in LoopIds, idle \in IdleResults : LoopProbeFailed(i, idle)
  \/ \E i \in LoopIds, idle \in IdleResults, w \in WindowInfo :
       LoopProbe(i, idle, w)
  \/ \E i \in LoopIds : LoopCount(i)
  \/ \E i \in LoopIds : LoopActive(i)
  \/ \E i \in LoopIds, db_ok \in BOOLEAN : LoopStore(i, db_ok)

(***************************************************************************)
(* WindowTracker: the privacy filter of the probe                          *)
(***************************************************************************)
\* the bullet character U+2022 (the strings of the model are ASCII: "@"
\* stands for it)
Bullet == "@"

\* whether string s contains string t (str::contains)
Contains(s, t) ==
  \E k \in 1..(Len(s) - Len(t) + 1) : SubSeq(s, k, k + Len(t) - 1) = t

\* the sensitive_apps of sanitize_title
sensitive_apps ==
  {"Bank", "Finance", "Password", "Login", "1Password", "Bitwarden", "KeePass"}

\* a sanitize_title that looks for the keywords first
sanitize_title_keywords_first(title) ==
  IF \E app \in sensitive_apps : Contains(title, app) THEN "[Protected App]"
  ELSE IF Contains(title, Bullet \o Bullet \o Bullet) \/ Contains(title, "***")
  THEN "[Sensitive Content]"
  ELSE title

\* WindowTracker::sanitize_title
sanitize_title(title) ==
  IF Contains(title, Bullet \o Bullet \o Bullet) \/ Contains(title, "***")
  THEN "[Sensitive Content]"
  ELSE IF \E app \in sensitive_apps : Contains(title, app) THEN "[Protected App]"
  ELSE title

\* what window titles are made of: the mask characters, a keyword, a keyword
\* that contains another one, a keyword in lower case, a letter and a blank
Pieces == {Bullet, "*", "Bank", "1Password", "bank", "x", " "}

\* the titles made of n pieces
RECURSIVE TitlesOf(_)
TitlesOf(n) ==
  IF n = 0 THEN {""} ELSE {t \o p : t \in TitlesOf(n - 1), p \in Pieces}

\* the titles the OS may return: up to MaxPieces pieces, the empty title
\* included
RawTitles == UNION {TitlesOf(n) : n \in 0..MaxPieces}

\* WindowTracker::new: no window probed yet
TrackerInit ==
  /\ raw_title = ""
  /\ sanitized_title = None

\* get_active_window_info: the title read from the window is sanitized
\* before it leaves the probe
GetActiveWindowInfo ==
  /\ sanitized_title = None
  /\ sanitized_title' = sanitize_title(raw_title)
  /\ UNCHANGED raw_title
  /\ UNCHANGED <<queueVars, storeVars, syncVars, monVars, lockVars, autoVars>>

Init ==
  /\ QueueInit /\ StoreInit /\ SyncInit /\ MonInit /\ TrackerInit
  /\ LockInit /\ AutoInit

\* the probe on its own, with any of the titles on the foreground window
SanitizeInit ==
  /\ QueueInit /\ StoreInit /\ SyncInit /\ MonInit /\ LockInit /\ AutoInit
  /\ raw_title \in RawTitles
  /\ sanitized_title = None

SanitizeNext == GetActiveWindowInfo

SanitizeSpec == SanitizeInit /\ [][SanitizeNext]_vars

QueueSpec == Init /\ [][QueueNext]_vars

\* the collector: start and stop calls and the polling loops they spawn
MonSpec == Init /\ [][MonNext]_vars

\* a loop in the middle of an iteration takes its next step
LoopStep ==
  \E i \in LoopIds :
    \/ LoopWake(i)
    \/ LoopCount(i)
    \/ LoopActive(i)
    \/ \E db_ok \in BOOLEAN : LoopStore(i, db_ok)

\* the collector seen with one window title per process
MonLiveNext ==
  \/ \E m \in MonCallers : StartCheck(m)
  \/ \E m \in MonCallers : StartSpawn(m)
  \/ \E m \in MonCallers : StopFlag(m)
  \/ \E m \in MonCallers : StopActive(m)
  \/ \E i \in LoopIds : LoopEnd(i)
  \/ \E i \in LoopIds, idle \in IdleResults : LoopIdle(i, idle)
  \/ \E i \in LoopIds : LoopWake(i)
  \/ \E i \in LoopIds, idle \in IdleResults : LoopProbeFailed(i, idle)
  \/ \E i \in LoopIds, idle \in IdleResults :
       \E w \in {v \in WindowInfo : v.window_title = "t1"} : LoopProbe(i, idle, w)
  \/ \E i \in LoopIds : LoopCount(i)
  \/ \E i \in LoopIds : LoopActive(i)
  \/ \E i \in LoopIds, db_ok \in BOOLEAN : LoopStore(i, db_ok)

\* the same, with every task scheduled: a loop in the middle of an iteration
\* goes on, a stop call in progress returns, and a loop waiting for the
\* is_running mutex gets it in the end (tokio's Mutex is fair)
MonLiveSpec ==
  /\ Init /\ [][MonLiveNext]_vars
  /\ WF_vars(LoopStep)
  /\ WF_vars(\E m \in MonCallers : StopActive(m))
  /\ SF_vars(\E i \in LoopIds : LoopEnd(i))

\* one polling loop on a user who is never idle, with every probe and every
\* store write succeeding
ProbeNext ==
  \/ StartCheck("m1")
  \/ StartSpawn("m1")
  \/ \E w \in WindowInfo : LoopProbe(1, [ok |-> TRUE, millis |-> 0], w)
  \/ LoopCount(1)
  \/ LoopActive(1)
  \/ LoopStore(1, TRUE)

ProbeSpec == Init /\ [][ProbeNext]_vars

\* the sync engine with capture going on beside it
Spec == Init /\ [][SyncNext]_vars

\* the sync engine with one caller: the store, the configuration and the
\* endpoint may fail in any way
SoloNext ==
  \/ \E w \in CapturedWindows : StoreEvent(w)
  \/ SetCryptoKey
  \/ \E cfg \in Configs, db_ok \in BOOLEAN : SetConfig(cfg, db_ok)
  \/ SyncNow("s1")
  \/ \E threshold \in 1..BatchLimit, db_ok \in BOOLEAN :
       CheckAndSyncIfNeeded("s1", threshold, db_ok)
  \/ SyncGuard("s1")
  \/ SyncGetConfig("s1")
  \/ \E db_ok \in BOOLEAN : SyncRead("s1", db_ok)
  \/ \E resp \in Responses : SyncSend("s1", resp)
  \/ SyncBackoff("s1")
  \/ \E db_ok \in BOOLEAN : SyncMark("s1", db_ok)
  \/ \E db_ok \in BOOLEAN : SyncUpdateState("s1", db_ok)
  \/ \E db_ok \in BOOLEAN : SyncClearError("s1", db_ok)
  \/ \E db_ok \in BOOLEAN : SyncStoreError("s1", db_ok)
  \/ ResetTask

SoloSpec == Init /\ [][SoloNext]_vars

\* one caller syncing against a healthy store and endpoint while events are
\* captured at different readings of the clock
BatchNext ==
  \/ ClockStep
  \/ \E w \in CapturedWindows : StoreEvent(w)
  \/ SetCryptoKey
  \/ \E cfg \in Configs : SetConfig(cfg, TRUE)
  \/ SyncNow("s1")
  \/ SyncGuard("s1")
  \/ SyncGetConfig("s1")
  \/ SyncRead("s1", TRUE)
  \/ \E resp \in {r \in Responses : r.status = 200 /\ r.body_ok /\ r.failed = 0} :
       SyncSend("s1", resp)
  \/ SyncMark("s1", TRUE)
  \/ SyncUpdateState("s1", TRUE)
  \/ SyncClearError("s1", TRUE)
  \/ ResetTask

BatchSpec == Init /\ [][BatchNext]_vars

\* one caller against an endpoint that answers each request in any way
RetryNext ==
  \/ \E w \in CapturedWindows : StoreEvent(w)
  \/ SetCryptoKey
  \/ \E cfg \in Configs : SetConfig(cfg, TRUE)
  \/ SyncNow("s1")
  \/ SyncGuard("s1")
  \/ SyncGetConfig("s1")
  \/ SyncRead("s1", TRUE)
  \/ \E resp \in WireResponses : SyncSend("s1", resp)
  \/ SyncBackoff("s1")
  \/ \E db_ok \in BOOLEAN : SyncMark("s1", db_ok)
  \/ \E db_ok \in BOOLEAN : SyncUpdateState("s1", db_ok)
  \/ \E db_ok \in BOOLEAN : SyncClearError("s1", db_ok)
  \/ \E db_ok \in BOOLEAN : SyncStoreError("s1", db_ok)
  \/ ResetTask

\* every request ends (the HTTP client is built with a timeout of 30 s) and
\* every back-off sleep ends
RetrySpec ==
  /\ Init /\ [][RetryNext]_vars
  /\ WF_vars(\E resp \in WireResponses : SyncSend("s1", resp))
  /\ WF_vars(SyncBackoff("s1"))

\* one caller starting and stopping the collector, with idle checks, probes
\* and store writes that may fail
FaultNext ==
  \/ StartCheck("m1")
  \/ StartSpawn("m1")
  \/ StopFlag("m1")
  \/ StopActive("m1")
  \/ \E i \in LoopIds : LoopEnd(i)
  \/ \E i \in LoopIds, idle \in IdleResults : LoopIdle(i, idle)
  \/ \E i \in LoopIds : LoopWake(i)
  \/ \E i \in LoopIds, idle \in IdleResults : LoopProbeFailed(i, idle)
  \/ \E i \in LoopIds, idle \in IdleResults, w \in WindowInfo :
       LoopProbe(i, idle, w)
  \/ \E i \in LoopIds : LoopCount(i)
  \/ \E i \in LoopIds : LoopActive(i)
  \/ \E i \in LoopIds, db_ok \in BOOLEAN : LoopStore(i, db_ok)

FaultSpec == Init /\ [][FaultNext]_vars

\* the one window of the collector seen at the level of its calls
OneWindow == [process_name |-> "A", window_title |-> "t1"]

\* a step of caller m inside a start, stop or get_status call
CallStep(m) ==
  \/ StartEnter(m)
  \/ StartSpawn(m)
  \/ StopEnter(m)
  \/ StopActive(m)
  \/ GetStatusRunning(m)
  \/ GetStatusCount(m)
  \/ GetStatusActive(m)
  \/ GetStatusReturn(m)

\* a step of polling loop i that the user and the OS have no say in
LoopRun(i) ==
  \/ LoopEnd(i)
  \/ LoopWake(i)
  \/ LoopCount(i)
  \/ LoopActive(i)
  \/ LoopStore(i, TRUE)

\* the collector seen at the level of its calls: start, stop and get_status
\* are called, wait for the locks and return, next to the polling loops, whose
\* store writes succeed
CallNext ==
  \/ \E m \in MonCallers : StartCall(m)
  \/ \E m \in MonCallers : StartEnter(m)
  \/ \E m \in MonCallers : StartSpawn(m)
  \/ \E m \in MonCallers : StopCall(m)
  \/ \E m \in MonCallers : StopEnter(m)
  \/ \E m \in MonCallers : StopActive(m)
  \/ \E m \in MonCallers : GetStatusCall(m)
  \/ \E m \in MonCallers : GetStatusRunning(m)
  \/ \E m \in MonCallers : GetStatusCount(m)
  \/ \E m \in MonCallers : GetStatusActive(m)
  \/ \E m \in MonCallers : GetStatusReturn(m)
  \/ \E i \in LoopIds : LoopEnd(i)
  \/ \E i \in LoopIds, idle \in IdleResults : LoopIdle(i, idle)
  \/ \E i \in LoopIds : LoopWake(i)
  \/ \E i \in LoopIds, idle \in IdleResults : LoopProbeFailed(i, idle)
  \/ \E i \in LoopIds, idle \in IdleResults : LoopProbe(i, idle, OneWindow)
  \/ \E i \in LoopIds : LoopCount(i)
  \/ \E i \in LoopIds : LoopActive(i)
  \/ \E i \in LoopIds : LoopStore(i, TRUE)

\* the same, with every task scheduled: a store write completes, a loop in
\* the middle of an iteration goes on, and a task waiting for a mutex gets it
\* in the end (tokio's Mutex is fair)
CallSpec ==
  /\ Init /\ [][CallNext]_vars
  /\ \A m \in MonCallers : SF_vars(CallStep(m))
  /\ \A i \in LoopIds : SF_vars(LoopRun(i))

\* the mutexes of SyncClient: a task that holds a guard goes on (no
\* suspension point lies under a guard), and a task waiting for a mutex gets
\* it once it is free (tokio's Mutex is fair); nothing is assumed about the
\* endpoint: a request may stay in flight for ever
LockSpec ==
  /\ Init /\ [][LockNext]_vars
  /\ WF_vars(FlagCheck("s1") \/ ConfigClone("s1") \/ BuildSyncEvents("s1"))
  /\ \A t \in ApiCallers : WF_vars(ApiReturn(t)) /\ SF_vars(ApiLock(t))

\* a step of the sync_events call of caller s1 against a store whose reads
\* and writes succeed, the call itself included
DrainStep ==
  \/ SyncNow("s1")
  \/ SyncGuard("s1")
  \/ SyncGetConfig("s1")
  \/ SyncRead("s1", TRUE)
  \/ \E resp \in WireResponses : SyncSend("s1", resp)
  \/ SyncBackoff("s1")
  \/ SyncMark("s1", TRUE)
  \/ SyncUpdateState("s1", TRUE)
  \/ SyncClearError("s1", TRUE)
  \/ SyncStoreError("s1", TRUE)

\* one caller calling sync_events again and again while the key and the
\* configuration are set and events are captured
DrainNext ==
  \/ \E w \in CapturedWindows : StoreEvent(w)
  \/ SetCryptoKey
  \/ \E cfg \in Configs : SetConfig(cfg, TRUE)
  \/ DrainStep
  \/ ResetTask

\* the caller goes on calling and every call goes on (requests and sleeps
\* end), and the task that clears the flag is scheduled
DrainSpec ==
  /\ Init /\ [][DrainNext]_vars
  /\ WF_vars(DrainStep)
  /\ WF_vars(ResetTask)

\* callers starting and stopping the auto-sync scheduler
AutoSpec == Init /\ [][AutoNext]_vars

\* configurations set one after the other
ServerConfigs == {"cfg1", "cfg2"}

\* an operator setting configurations and restarting the application, and a
\* caller whose sync_events reads the configuration
ConfigNext ==
  \/ \E cfg \in ServerConfigs, db_ok \in BOOLEAN : SetConfig(cfg, db_ok)
  \/ Restart
  \/ \E w \in CapturedWindows : StoreEvent(w)
  \/ SyncNow("s1")
  \/ SyncGuard("s1")
  \/ SyncGetConfig("s1")
  \/ \E db_ok \in BOOLEAN : SyncRead("s1", db_ok)
  \/ ResetTask

ConfigSpec == Init /\ [][ConfigNext]_vars

\* the same, with the tasks spawned by the scope guard scheduled eventually
LiveSpec == Spec /\ WF_vars(ResetTask)

(***************************************************************************)
(* EventQueue: admission control (QueueSpec)                               *)
(***************************************************************************)
\* C1: for every capacity and every interleaving of enqueue and drain, the
\* number of events resident in the queue never exceeds max_size
C1_ResidentNeverExceedsCapacity == Len(events) <= max_size

\* C2: when the queue holds max_size events, an enqueue does not append its
\* event: no step makes a full queue longer
C2_FullQueueSuspendsEnqueue ==
  [][Len(events) = max_size => Len(events') <= Len(events)]_vars

(***************************************************************************)
(* SyncClient: the single-flight guard (Spec, LiveSpec)                    *)
(***************************************************************************)
Flying == {c \in SyncCallers : InFlight(c)}

\* C3: at most one sync_events call is between passing the single-flight
\* guard and exiting
C3_AtMostOneSyncInFlight == Cardinality(Flying) <= 1

\* one call is in flight and a second one stands at the guard
C3_Witness ==
  \E c, d \in SyncCallers : c # d /\ InFlight(c) /\ sync[d].pc = "guard"

\* C4: a sync_events call made while another one is in flight returns
\* 'Sync already in progress', changes nothing in the store and leaves the
\* flag of the running sync set
C4_RejectedCallTouchesNothing ==
  [][\A c \in SyncCallers :
       (sync[c].pc = "guard" /\ sync'[c].pc # "guard" /\ Flying \ {c} # {})
       => /\ returned' = AlreadyInProgress
          /\ sync'[c].pc = "idle"
          /\ UNCHANGED storeVars
          /\ is_syncing' = TRUE
          /\ reset_tasks' = reset_tasks]_vars

\* a call has been rejected and the sync it ran into is still in flight
C4_Witness ==
  /\ returned = AlreadyInProgress
  /\ is_syncing
  /\ \E d \in SyncCallers : sync[d].pc \in {"send", "backoff", "mark"}

\* C5: once sync_events has returned and no sync is running, is_syncing is
\* false (so get_status reports false and the next call is not rejected)
C5_FlagClearWhenNoSyncRuns == (Flying = {}) => ~get_status.is_syncing

\* C6: after a sync_events call that passed the guard has exited, the flag
\* eventually becomes false (the spawned tasks being scheduled)
C6_FlagEventuallyCleared == (is_syncing /\ Flying = {}) ~> ~is_syncing

\* a sync that passed the guard has failed, and the flag is clear again
C6_Witness ==
  /\ IsErr(returned) /\ returned # AlreadyInProgress
  /\ ~is_syncing
  /\ \A c \in SyncCallers : sync[c].pc = "idle"

\* the ids of the rows whose synced flag differs before and after a step
ChangedIds ==
  {local_events[i].id : i \in {j \in DOMAIN local_events :
     j \in DOMAIN local_events' => local_events'[j].synced # local_events[j].synced}}

\* the step of caller c that marks its batch
MarkStep(c) == sync[c].pc = "mark" /\ sync'[c].pc = "state"

\* C7: the rows whose synced flag changes in a sync are exactly the ids of
\* the transmitted batch: the marking step changes those and no others, and
\* no other step changes a flag
C7_MarksExactlyTheBatch ==
  [][/\ \A c \in SyncCallers : MarkStep(c) => ChangedIds = Range(sync[c].batch)
     /\ ChangedIds # {} => \E c \in SyncCallers : MarkStep(c)]_vars

\* a batch shorter than the cap has been marked and a row stored while the
\* sync was in flight is still unsynced
C7_Witness ==
  \E c \in SyncCallers :
    /\ sync[c].pc = "state"
    /\ Len(sync[c].batch) < BatchLimit
    /\ \A i \in Range(sync[c].batch) : local_events[i].synced
    /\ UnsyncedRows(local_events) # {}

\* C8: whenever sync_events fails after passing the guard, the text of the
\* error is the last_sync_error setting when the call returns
C8_FailureTextPersisted ==
  [][\A c \in SyncCallers :
       (InFlight(c) /\ sync'[c].pc = "idle" /\ IsErr(returned'))
       => local_settings'["last_sync_error"] = to_string(returned')]_vars

(***************************************************************************)
(* Collector: start and stop (MonSpec)                                     *)
(***************************************************************************)
\* C9: after any sequence of start and stop calls at most one polling loop
\* is alive
C9_AtMostOneLoopAlive == Cardinality(Alive) <= 1

\* C10: a start call made while the collector is running is a no-op: only a
\* start that finds is_running false sets it and goes on to spawn, and each
\* such start spawns one loop
C10_StartWhileRunningIsNoOp ==
  [][/\ \A m \in MonCallers :
          (mon[m] \in Callable /\ mon'[m] = "spawn") => (~is_running /\ is_running')
     /\ \A m \in MonCallers :
          (mon[m] = "idle" /\ mon'[m] = "noop") =>
             (is_running /\ is_running' /\ loops' = loops)
     /\ Alive' \ Alive # {} =>
          /\ Cardinality(Alive' \ Alive) = 1
          /\ \E m \in MonCallers : mon[m] = "spawn" /\ mon'[m] = "idle"
     /\ \A m \in MonCallers : (mon[m] = "spawn" /\ mon'[m] = "idle") =>
          Cardinality(Alive' \ Alive) = 1]_vars

\* two start calls have raced: one has passed the check and not spawned its
\* loop yet, the other has found the flag set and returned
C10_Witness ==
  \E m, n \in MonCallers :
    /\ m # n /\ mon[m] = "spawn" /\ mon[n] = "noop"
    /\ is_running /\ Alive = {}

(***************************************************************************)
(* Collector: cancellation, change detection, status (MonSpec, MonLiveSpec)*)
(***************************************************************************)
\* C11: after stop, unless start is called again, every polling loop reads
\* the cleared flag at the top of an iteration and ends; while no loop is
\* alive no event is stored
C11_StopEndsTheLoop ==
  /\ (~is_running) ~> (is_running \/ Alive = {})
  /\ [][Alive = {} => local_events' = local_events]_vars

\* a loop has stored an event, stop has returned and the loop has ended
C11_Witness ==
  /\ ~is_running /\ is_running_lock = None
  /\ Alive = {}
  /\ Len(local_events) > 0

\* the process names of the stored events, in insertion order
StoredNames == [k \in DOMAIN local_events |-> local_events[k].app_name]

\* C12: with one loop, no idle periods and every probe and store succeeding,
\* a probe is stored exactly when its process name differs from the name of
\* the previous probe (the first probe counts; a new title of the same
\* process does not), so the stored names are the probed names with repeats
\* collapsed
C12_StoresExactlyTheChanges ==
  [][/\ \A i \in LoopIds :
          /\ (loops[i].pc = "check" /\ loops'[i].pc = "count")
               => loops'[i].window_info.process_name # loops[i].prev
          /\ (loops[i].pc = "check" /\ loops'[i].prev # loops[i].prev)
               => loops'[i].pc = "count"
          /\ loops'[i].pc = "check" =>
               /\ Len(local_events') = events_collected'
               /\ IF local_events' = <<>> THEN loops'[i].prev = None
                  ELSE StoredNames'[Len(local_events')] = loops'[i].prev
     /\ \A k \in DOMAIN local_events' :
          k > 1 => StoredNames'[k] # StoredNames'[k - 1]]_vars

\* the probed sequence A, A, B, A (in any titles) has been stored as A, B, A
C12_Witness ==
  /\ StoredNames = <<"A", "B", "A">>
  /\ loops[1].pc = "check"

\* C13: from the return of stop until the next start (the flag is false and
\* no stop call is in progress), get_status reports is_running = false and
\* active_window = None
C13_StoppedStatusIsEmpty ==
  (~is_running /\ is_running_lock = None) =>
     (~CollectorStatus.is_running /\ CollectorStatus.active_window = None)

(***************************************************************************)
(* SyncClient: retry, outcome and batch (Spec)                             *)
(***************************************************************************)
\* the answers of an endpoint that is reached and reports a server failure
ServerErrors == {r \in Responses : r.transport = "ok" /\ r.status \in 500..599}

\* C14: when every attempt is answered 5xx, three attempts are made, the
\* first followed by a delay of 1 s, the second by a delay of 2 s, the third
\* by none, and the call fails with a Server error
C14_ThreeAttemptsThenServerError ==
  [][\A c \in SyncCallers :
       /\ \A resp \in ServerErrors :
            (crypto # None /\ SyncSend(c, resp)) =>
               /\ sync'[c].attempt = sync[c].attempt + 1
               /\ sync'[c].attempt \in 1..3
               /\ sync'[c].attempt = 1 =>
                    (sync'[c].pc = "backoff" /\ sync'[c].delay = 1)
               /\ sync'[c].attempt = 2 =>
                    (sync'[c].pc = "backoff" /\ sync'[c].delay = 2)
               /\ sync'[c].attempt = 3 =>
                    (sync'[c].pc = "failed" /\ sync'[c].err.kind = "Server")
       /\ SyncBackoff(c) => (sync'[c].pc = "send" /\ sync'[c].attempt < 3)
       /\ (sync[c].pc = "failed" /\ sync[c].err.kind = "Server"
             /\ sync'[c].pc # "failed")
            => (sync'[c].pc = "idle" /\ returned'.kind = "Server")]_vars

\* a call has made three attempts and is failing with a Server error
C14_Witness ==
  \E c \in SyncCallers :
    /\ sync[c].pc = "failed"
    /\ sync[c].attempt = 3
    /\ sync[c].err.kind = "Server"

\* the answers of an endpoint that rejects the credential with 401
Unauthorized == {r \in Responses : r.transport = "ok" /\ r.status = 401}

\* C15: an attempt answered 401 ends the retry loop at once with an Auth
\* error (a first attempt is then the only one, and no delay follows);
\* sync_events marks no event, records a last error containing
\* 'Authentication failed' (the settings write succeeding) and returns the
\* Auth error
C15_AuthFailureIsNotRetried ==
  [][\A c \in SyncCallers :
       /\ \A resp \in Unauthorized :
            (crypto # None /\ SyncSend(c, resp)) =>
               /\ sync'[c].pc = "failed"
               /\ sync'[c].err.kind = "Auth"
               /\ sync[c].attempt = 0 => sync'[c].attempt = 1
               /\ local_events' = local_events
       /\ (sync[c].err.kind = "Auth" /\ SyncStoreError(c, TRUE)) =>
               /\ returned'.kind = "Auth"
               /\ sync'[c].pc = "idle"
               /\ Contains(get_status'.last_error, "Authentication failed")
               /\ local_events' = local_events]_vars

\* a call answered 401 on its first attempt has returned the Auth error;
\* the last error is recorded and the events it read are still unsynced
C15_Witness ==
  /\ returned.kind = "Auth"
  /\ Contains(get_status.last_error, "Authentication failed")
  /\ get_status.pending_events > 0
  /\ \A i \in DOMAIN local_events : ~local_events[i].synced
  /\ \A c \in SyncCallers : sync[c].pc = "idle"

\* the answers with a 2xx status
Success2xx == {r \in Responses : r.transport = "ok" /\ r.status \in 200..299}

\* C17 as stated: every 2xx answer makes the attempt succeed
C17_Any2xxSucceeds ==
  [][\A c \in SyncCallers : \A resp \in Success2xx :
       (crypto # None /\ SyncSend(c, resp)) => sync'[c].pc = "mark"]_vars

\* C17: a 2xx answer whose body parses as a SyncResponse makes the attempt
\* succeed whatever failed count it reports, and every transmitted id is
\* then marked synced; a 2xx answer whose body does not parse fails the
\* attempt with an Unknown error that is not retried
C17_Parsed2xxSucceeds ==
  [][\A c \in SyncCallers :
       /\ \A resp \in Success2xx :
            (crypto # None /\ SyncSend(c, resp)) =>
               IF resp.body_ok
               THEN sync'[c].pc = "mark"
               ELSE sync'[c].pc = "failed" /\ sync'[c].err.kind = "Unknown"
       /\ SyncMark(c, TRUE) =>
            \A k \in DOMAIN local_events' :
               local_events'[k].id \in Range(sync[c].batch)
                 => local_events'[k].synced]_vars

\* the endpoint has answered 2xx reporting a failed event and the batch has
\* been marked synced
C17_Witness ==
  \E c \in SyncCallers :
    /\ sync[c].pc = "state"
    /\ sync[c].failed > 0
    /\ sync[c].batch # <<>>
    /\ \A k \in DOMAIN local_events :
         local_events[k].id \in Range(sync[c].batch) => local_events[k].synced

\* C16: when sync_events succeeds, every id of its batch is marked synced;
\* if the batch held every unsynced event (at most the cap were stored and
\* none was captured meanwhile) get_status reports pending_events = 0; and
\* (the settings write succeeding) the last error is cleared: last_error is
\* the empty text, whatever an earlier failed sync recorded
C16_SuccessClearsPendingAndError ==
  [][\A c \in SyncCallers : \A db_ok \in BOOLEAN :
       SyncClearError(c, db_ok) =>
         /\ returned' = Ok
         /\ \A k \in DOMAIN local_events' :
              local_events'[k].id \in Range(sync[c].batch)
                => local_events'[k].synced
         /\ (\A k \in DOMAIN local_events :
                local_events[k].id \notin Range(sync[c].batch)
                  => local_events[k].synced)
              => get_status'.pending_events = 0
         /\ db_ok => get_status'.last_error = ""]_vars

\* a sync of two events has succeeded: nothing is pending and the last error
\* is cleared
C16_Witness ==
  /\ returned = Ok
  /\ Len(local_events) >= 2
  /\ get_status.pending_events = 0
  /\ get_status.last_error = ""
  /\ \A c \in SyncCallers : sync[c].pc = "idle"

\* C18: no step removes a row or clears the synced flag of a row
C18_SyncedNeverReverts ==
  [][/\ Len(local_events') >= Len(local_events)
     /\ \A k \in DOMAIN local_events :
          /\ local_events'[k].id = local_events[k].id
          /\ local_events[k].synced => local_events'[k].synced]_vars

\* a later sync has marked its batch and a row synced by an earlier sync is
\* still synced
C18_Witness ==
  \E c \in SyncCallers :
    /\ sync[c].pc = "state"
    /\ sync[c].batch # <<>>
    /\ \E k \in DOMAIN local_events :
         /\ local_events[k].id \notin Range(sync[c].batch)
         /\ local_events[k].synced

\* the timestamp of the row with the given id
TimestampOf(id) == local_events[id].timestamp

\* C19: the batch a sync_events call transmits holds at most BatchLimit
\* events (the cap of 100), all unsynced when read, in order of timestamp,
\* and no unsynced event left out is older than one in the batch; the
\* marking step leaves the events outside the batch as they are
C19_BatchIsTheOldestUnsynced ==
  [][\A c \in SyncCallers :
       /\ (SyncRead(c, TRUE) /\ sync'[c].pc = "send") =>
            LET b == sync'[c].batch
                U == {local_events[k].id : k \in UnsyncedRows(local_events)}
            IN /\ Len(b) = Min(BatchLimit, Cardinality(U))
               /\ Range(b) \subseteq U
               /\ Cardinality(Range(b)) = Len(b)
               /\ \A i, j \in DOMAIN b :
                    i < j => TimestampOf(b[i]) <= TimestampOf(b[j])
               /\ \A x \in Range(b) : \A u \in U \ Range(b) :
                    TimestampOf(x) <= TimestampOf(u)
       /\ SyncMark(c, TRUE) =>
            \A k \in DOMAIN local_events :
               local_events[k].id \notin Range(sync[c].batch)
                 => local_events'[k] = local_events[k]]_vars

\* a full batch has been cut that is not in insertion order (the clock was
\* set back between two captures) and an unsynced event is left for later
C19_Witness ==
  \E c \in SyncCallers :
    /\ sync[c].pc = "send"
    /\ Len(sync[c].batch) = BatchLimit
    /\ sync[c].batch[1] > sync[c].batch[2]
    /\ TimestampOf(sync[c].batch[1]) < TimestampOf(sync[c].batch[2])
    /\ \E k \in UnsyncedRows(local_events) :
         local_events[k].id \notin Range(sync[c].batch)

\* C20: a sync_events call whose read finds no unsynced event returns Ok at
\* once, changing nothing in the store; the point where requests are sent is
\* reached only from a read that found unsynced events, or from a retry
C20_NothingToSyncNoRequest ==
  [][\A c \in SyncCallers :
       /\ (SyncRead(c, TRUE) /\ UnsyncedRows(local_events) = {}) =>
            /\ returned' = Ok
            /\ sync'[c] = Idle
            /\ UNCHANGED storeVars
       /\ (sync[c].pc # "send" /\ sync'[c].pc = "send") =>
            \/ sync[c].pc = "read" /\ UnsyncedRows(local_events) # {}
            \/ sync[c].pc = "backoff"]_vars

\* a configured client has synced an empty store and got Ok
C20_Witness ==
  /\ returned = Ok
  /\ local_events = <<>>
  /\ config # None
  /\ \A c \in SyncCallers : sync[c].pc = "idle"

(***************************************************************************)
(* SyncClient: failures before the first request (Spec)                    *)
(***************************************************************************)
\* C21: a sync_events call that finds no server configuration, neither
\* stored nor cached, returns the 'Server not configured' error from its
\* get_config step, leaves the store (every synced flag included) as it is
\* and never reaches the point where requests are sent: a call goes on from
\* get_config only when a configuration is there
C21_NotConfiguredFailsEarly ==
  [][\A c \in SyncCallers :
       /\ (/\ SyncGetConfig(c)
           /\ local_settings["server_config"] = None
           /\ config = None) =>
            /\ returned' = NotConfigured
            /\ Contains(to_string(returned'), "not configured")
            /\ sync'[c] = Idle
            /\ UNCHANGED storeVars
       /\ (sync[c].pc = "get_config" /\ sync'[c].pc \notin {"get_config", "idle"}) =>
            /\ sync'[c].pc = "read"
            /\ (local_settings["server_config"] # None \/ config # None)]_vars

\* a call has failed for want of a configuration while unsynced events and
\* the key were there
C21_Witness ==
  /\ returned = NotConfigured
  /\ local_settings["server_config"] = None
  /\ config = None
  /\ crypto # None
  /\ UnsyncedRows(local_events) # {}

NotInitialized == SyncError("Encryption", "Crypto manager not initialized")

\* C22: a send attempt made while no key is installed fails with the
\* encryption 'not initialized' error whatever the endpoint would answer (no
\* request is made), is the first and last attempt of its call, and the
\* call returns that error with no row of local_events changed
C22_NoKeyFailsWithoutRequest ==
  [][\A c \in SyncCallers :
       /\ \A resp \in Responses :
            (crypto = None /\ SyncSend(c, resp)) =>
              /\ sync[c].batch # <<>>
              /\ \A other \in Responses :
                   send_events(crypto, other) = NotInitialized
              /\ sync'[c].pc = "failed"
              /\ sync'[c].err = NotInitialized
              /\ Contains(to_string(sync'[c].err), "not initialized")
              /\ sync[c].attempt = 0 /\ sync'[c].attempt = 1
              /\ local_events' = local_events
       /\ \A db_ok \in BOOLEAN :
            (SyncStoreError(c, db_ok) /\ sync[c].err = NotInitialized) =>
              /\ returned' = NotInitialized
              /\ sync'[c] = Idle
              /\ local_events' = local_events]_vars

\* a call with a batch to send has returned the error, and its events are
\* still unsynced
C22_Witness ==
  /\ returned = NotInitialized
  /\ crypto = None
  /\ UnsyncedRows(local_events) # {}
  /\ \A k \in DOMAIN local_events : ~local_events[k].synced

(***************************************************************************)
(* EventQueue: order and drain (QueueSpec)                                 *)
(***************************************************************************)
\* enqueue calls that have returned
Enqueued == enq_calls - Cardinality({p \in Producers : enq[p].pc # "idle"})

\* C23: the events the drains have returned so far, followed by the events
\* in the queue, are the events pushed so far in the order of the pushes,
\* one for each enqueue that has returned (so len() is the number of
\* enqueues since the last drain that took something); a drain returns the
\* whole content of the queue in that order and leaves the queue empty
C23_DrainKeepsInsertionOrder ==
  /\ [](/\ taken \o Ids(events) = appended
        /\ Len(appended) = Enqueued
        /\ \A i, j \in DOMAIN appended : i # j => appended[i] # appended[j])
  /\ [][Drain => /\ drained' = events
                  /\ events' = <<>>
                  /\ taken' = taken \o Ids(drained')]_vars

\* two drains have returned events, the second one two of them that were
\* pushed in another order than their enqueue calls started
C23_Witness ==
  /\ Len(taken) = MaxEnqueues
  /\ Len(drained) = 2
  /\ drained[1].id > drained[2].id
  /\ events = <<>>

\* C24: drain can always run on an empty queue, whatever the producers are
\* doing, and then returns the empty vector and leaves the queue and the
\* number of available permits as they are
C24_EmptyDrainIsImmediateNoOp ==
  /\ [](events = <<>> => ENABLED Drain)
  /\ [][(Drain /\ events = <<>>) => /\ drained' = <<>>
                                       /\ events' = <<>>
                                       /\ semaphore' = semaphore]_vars

\* an empty queue has been drained while a producer was inside enqueue
\* holding a permit, after an earlier drain had returned events
C24_Witness ==
  /\ drained = <<>>
  /\ events = <<>>
  /\ taken # <<>>
  /\ \E p \in Producers : enq[p].pc = "push"
  /\ semaphore < max_size + Len(taken)

(***************************************************************************)
(* Collector: the idle check and the store write of the loop (MonSpec)     *)
(***************************************************************************)
\* C25, amended: in an iteration whose idle duration is above the idle
\* threshold of 300 s the loop does not probe the foreground window: it
\* goes to sleep and wakes up at the top of the next iteration, and neither
\* step stores or counts an event; at exactly the threshold the iteration
\* does not take the idle branch
C25_IdleAboveThresholdSkipsProbe ==
  [][\A i \in LoopIds :
       /\ \A idle \in IdleResults :
            /\ (idle.ok /\ idle.millis > IdleThreshold * 1000) =>
                 /\ ~LoopProbeFailed(i, idle)
                 /\ \A w \in WindowInfo : ~LoopProbe(i, idle, w)
            /\ (idle.ok /\ idle.millis = IdleThreshold * 1000) =>
                 ~LoopIdle(i, idle)
            /\ LoopIdle(i, idle) =>
                 /\ idle.ok /\ idle.millis > IdleThreshold * 1000
                 /\ loops'[i] = [loops[i] EXCEPT !.pc = "idle_wait"]
                 /\ UNCHANGED <<local_events, events_collected, active_window>>
       /\ LoopWake(i) =>
            /\ loops'[i] = [loops[i] EXCEPT !.pc = "check"]
            /\ UNCHANGED <<local_events, events_collected, active_window>>]_vars

\* a loop that has stored an event is asleep in an idle iteration
C25_Witness ==
  \E i \in LoopIds :
    /\ loops[i].pc = "idle_wait"
    /\ loops[i].last_window # None
    /\ local_events # <<>>

\* C25, as stated: in an iteration whose idle duration is at least the idle
\* threshold, the threshold itself included, the loop does not probe the
\* foreground window (and so stores nothing)
C25_IdleAtThresholdSkipsProbe ==
  [][\A i \in LoopIds : \A idle \in IdleResults : \A w \in WindowInfo :
       (idle.ok /\ idle.millis >= IdleThreshold * 1000)
         => ~LoopProbe(i, idle, w)]_vars

\* C26: a store write that fails leaves the table as it is and the loop at
\* the top of its next iteration, with the snapshot gone and last_window
\* still the process name of the dropped event; a probe that returns
\* last_window's name stores nothing, every other probe goes on to count and
\* store its snapshot, and a write that succeeds appends that snapshot
C26_FailedWriteIsDroppedNotRetried ==
  [][\A i \in LoopIds :
       /\ LoopStore(i, FALSE) =>
            /\ local_events' = local_events
            /\ loops'[i].pc = "check"
            /\ loops'[i].window_info = NoWindow
            /\ loops'[i].last_window = loops[i].window_info.process_name
       /\ \A idle \in IdleResults : \A w \in WindowInfo :
            LoopProbe(i, idle, w) =>
              /\ local_events' = local_events
              /\ IF w.process_name = loops[i].last_window
                 THEN loops'[i].pc = "check"
                 ELSE loops'[i].pc = "count" /\ loops'[i].window_info = w
       /\ (LoopStore(i, TRUE) /\ Len(local_events') > Len(local_events)) =>
            /\ Len(local_events') = Len(local_events) + 1
            /\ local_events'[Len(local_events')].app_name
                 = loops[i].window_info.process_name
            /\ loops'[i].pc = "check"]_vars

\* the write of the first change (to A) failed, the loop went on and the
\* next change (to B) was stored
C26_Witness ==
  /\ is_running
  /\ events_collected = 2
  /\ StoredNames = <<"B">>
  /\ loops[1].pc = "check" /\ loops[1].last_window = "B"
  /\ loops[2].pc = "none"

(***************************************************************************)
(* SyncClient: the timestamps on the wire (BatchSpec)                      *)
(***************************************************************************)
\* C27, as stated: no event of a request carries a timestamp later than the
\* clock's reading when the request is built
C27_NoFutureTimestampOnTheWire ==
  [][\A c \in SyncCallers : \A resp \in Responses :
       SyncSend(c, resp) =>
         \A k \in DOMAIN sync'[c].sent : sync'[c].sent[k] <= now]_vars

\* C27, amended: no event of a request carries a timestamp more than the
\* tolerance of 60 s later than the clock's reading when the request is
\* built; an event recorded (to the second) more than 60 s ahead of the
\* clock is sent with the clock's reading, every other one with its recorded
\* second
C27_TimestampAtMostToleranceAhead ==
  [][\A c \in SyncCallers : \A resp \in Responses :
       (SyncSend(c, resp) /\ crypto # None) =>
         /\ Len(sync'[c].sent) = Len(sync[c].batch)
         /\ \A k \in DOMAIN sync'[c].sent :
              LET recorded == ReadBack(TimestampOf(sync[c].batch[k]))
              IN /\ sync'[c].sent[k] <= now + Tolerance
                 /\ sync'[c].sent[k] =
                      IF recorded > now + Tolerance THEN now ELSE recorded]_vars

\* a request has just been built from one event recorded more than 60 s
\* ahead of the clock (sent with the clock's reading) and one recorded less
\* than 60 s ahead of it (sent as recorded)
C27_Witness ==
  \E c \in SyncCallers :
    /\ sync[c].pc = "mark"
    /\ Len(sync[c].batch) = 2
    /\ \E k, l \in DOMAIN sync[c].batch :
         /\ TimestampOf(sync[c].batch[k]) > now + Tolerance
         /\ sync[c].sent[k] = now
         /\ TimestampOf(sync[c].batch[l]) > now
         /\ sync[c].sent[l] = ReadBack(TimestampOf(sync[c].batch[l]))
         /\ sync[c].sent[l] > now

(***************************************************************************)
(* WindowTracker: sanitize_title (SanitizeSpec)                            *)
(***************************************************************************)
FourBullets == Bullet \o Bullet \o Bullet \o Bullet
ThreeBullets == Bullet \o Bullet \o Bullet

\* C28, as stated: a title containing four bullets in a row or "***" comes
\* out as "[Sensitive Content]", any other title containing a keyword as
\* "[Protected App]", and every other title unchanged
C28_SanitizeFourBullets ==
  sanitized_title # None => sanitized_title =
    IF Contains(raw_title, FourBullets) \/ Contains(raw_title, "***")
    THEN "[Sensitive Content]"
    ELSE IF \E app \in sensitive_apps : Contains(raw_title, app)
    THEN "[Protected App]"
    ELSE raw_title

\* C28, amended: the title that leaves the probe is "[Sensitive Content]",
\* "[Protected App]" or the title as read, never a part of it: the first
\* when the title contains three bullets in a row or "***", whatever else
\* it contains; else the second when it contains a keyword in the keyword's
\* own case; else the title itself, the empty one included
C28_SanitizeThreeBullets ==
  LET masked == Contains(raw_title, ThreeBullets) \/ Contains(raw_title, "***")
      keyword == \E app \in sensitive_apps : Contains(raw_title, app)
  IN sanitized_title # None =>
       /\ sanitized_title \in {"[Sensitive Content]", "[Protected App]", raw_title}
       /\ masked => sanitized_title = "[Sensitive Content]"
       /\ (~masked /\ keyword) => sanitized_title = "[Protected App]"
       /\ (~masked /\ ~keyword) => sanitized_title = raw_title
       /\ raw_title = "" => sanitized_title = ""

\* a title with a keyword and exactly three bullets has been sanitized
C28_Witness ==
  /\ raw_title = "Bank" \o ThreeBullets
  /\ sanitized_title = "[Sensitive Content]"

(***************************************************************************)
(* SyncClient: the server configuration (ConfigSpec)                       *)
(***************************************************************************)
Stored == local_settings["server_config"]

\* C29: the cache never holds a configuration the settings store does not
\* hold; a set_config whose write fails returns the error and leaves store
\* and cache as they are; one that succeeds leaves its configuration in
\* store and cache; get_config returns the stored configuration whenever
\* there is one, so after a restart, which empties the cache, it still
\* returns the configuration set last
C29_ConfigPersistedBeforeCached ==
  /\ [](config # None => Stored = config)
  /\ [](Stored # None => get_config = Stored)
  /\ [][/\ \A cfg \in ServerConfigs : \A db_ok \in BOOLEAN :
            SetConfig(cfg, db_ok) =>
              IF SetConfigFails(db_ok)
              THEN config' = config /\ Stored' = Stored
              ELSE Stored' = cfg /\ config' = cfg /\ get_config' = cfg
        /\ Restart =>
              config' = None /\ Stored' = Stored /\ get_config' = Stored]_vars

\* after cfg1 and then cfg2 were set and the application was restarted, a
\* sync_events call has got the configuration from get_config with the
\* cache empty
C29_Witness ==
  /\ config = None
  /\ Stored = "cfg2"
  /\ get_config = "cfg2"
  /\ sync["s1"].pc = "read"

(***************************************************************************)
(* SyncClient: the retry loop ends (RetrySpec)                             *)
(***************************************************************************)
InRetryLoop(c) == sync[c].pc \in {"send", "backoff"}

\* C30: a call never makes more than MaxRetries (3) attempts; a call inside
\* sync_with_retry leaves it in the end, with success or with an error,
\* whatever the endpoint answers; an attempt that succeeds ends the loop at
\* once with success, on the first attempt as after one or two network or
\* server failures; a failed third attempt ends it with the error; and the
\* batch of a call that succeeded is marked synced
C30_RetryEndsWithinThreeAttempts ==
  /\ [](\A c \in SyncCallers : sync[c].attempt <= MaxRetries)
  /\ \A c \in {"s1"} : InRetryLoop(c) ~> sync[c].pc \in {"mark", "failed"}
  /\ [][\A c \in SyncCallers :
          /\ \A resp \in WireResponses :
               SyncSend(c, resp) =>
                 /\ sync'[c].attempt = sync[c].attempt + 1
                 /\ IF ~IsErr(send_events(crypto, resp))
                    THEN sync'[c].pc = "mark"
                    ELSE /\ sync'[c].pc \in {"backoff", "failed"}
                         /\ sync'[c].attempt = MaxRetries => sync'[c].pc = "failed"
                         /\ sync'[c].pc = "backoff" =>
                              send_events(crypto, resp).kind \in {"Network", "Server"}
          /\ SyncBackoff(c) =>
               sync'[c].pc = "send" /\ sync'[c].attempt < MaxRetries
          /\ SyncMark(c, TRUE) =>
               \A k \in DOMAIN local_events' :
                  local_events'[k].id \in Range(sync[c].batch)
                    => local_events'[k].synced]_vars

\* the first attempt failed, the second too, the third succeeded and the
\* batch has been marked synced
C30_Witness ==
  \E c \in SyncCallers :
    /\ sync[c].pc = "state"
    /\ sync[c].attempt = MaxRetries
    /\ sync[c].batch # <<>>
    /\ \A k \in DOMAIN local_events :
         local_events[k].id \in Range(sync[c].batch) => local_events[k].synced

(***************************************************************************)
(* SyncClient: failures that are not retried (RetrySpec)                   *)
(***************************************************************************)
\* the kinds of failure sync_with_retry follows with another attempt
RetryableKinds == {"Network", "Server"}

\* C31: an attempt that fails with a kind other than Network or Server
\* (no key, a 2xx body that does not parse, a status that is neither 2xx nor
\* 5xx) is the last one of its sync_with_retry: the loop is left with that
\* error, no sleep follows and the delay is not doubled; a first attempt is
\* then the only one, and the call returns that error without sending again
C31_OtherFailuresAreNotRetried ==
  [][\A c \in SyncCallers :
       /\ \A resp \in WireResponses :
            (/\ SyncSend(c, resp)
             /\ IsErr(send_events(crypto, resp))
             /\ send_events(crypto, resp).kind \notin RetryableKinds) =>
               /\ sync'[c].pc = "failed"
               /\ sync'[c].err = send_events(crypto, resp)
               /\ sync'[c].delay = sync[c].delay
               /\ sync'[c].attempt = sync[c].attempt + 1
               /\ sync[c].attempt = 0 => sync'[c].attempt = 1
       /\ (sync[c].pc = "failed" /\ sync'[c].pc # "failed") =>
               /\ sync'[c].pc = "idle"
               /\ returned' = sync[c].err]_vars

\* a call whose first attempt was answered with an unknown failure has left
\* the retry loop after that one attempt, its delay still the initial one
C31_Witness ==
  \E c \in SyncCallers :
    /\ sync[c].pc = "failed"
    /\ sync[c].attempt = 1
    /\ sync[c].delay = InitialDelay
    /\ sync[c].err.kind = "Unknown"

(***************************************************************************)
(* SyncClient: the classification of an answer (RetrySpec)                 *)
(***************************************************************************)
\* the kind of failure the status of an answer outside 200..299 stands for
KindOfStatus(status) ==
  IF status \in {401, 403} THEN "Auth"
  ELSE IF status \in 500..599 THEN "Server"
  ELSE "Unknown"

\* C32: for a request that is sent, a failure of the transport (a timeout
\* included) is a Network failure; an answer whose status is not 2xx is an
\* Auth failure for 401 and 403, a Server failure for 500..599 and an
\* Unknown failure for every other status, whatever its body; and that is
\* the error the call fails with when the attempt is its last
C32_FailureKindFollowsStatus ==
  [][\A c \in SyncCallers : \A resp \in WireResponses :
       (crypto # None /\ SyncSend(c, resp)) =>
          /\ resp.transport # "ok" =>
               send_events(crypto, resp).kind = "Network"
          /\ (resp.transport = "ok" /\ resp.status \notin 200..299) =>
               /\ send_events(crypto, resp).kind = KindOfStatus(resp.status)
               /\ \A other \in WireResponses :
                    (other.transport = "ok" /\ other.status = resp.status) =>
                       send_events(crypto, other) = send_events(crypto, resp)
          /\ (IsErr(send_events(crypto, resp)) /\ sync'[c].pc = "failed") =>
               sync'[c].err = send_events(crypto, resp)]_vars

\* a second attempt answered 499 has failed as Unknown, the first having
\* failed in a way that is retried
C32_Witness ==
  \E c \in SyncCallers :
    /\ sync[c].pc = "failed"
    /\ sync[c].attempt = 2
    /\ sync[c].err = SyncError("Unknown", "HTTP 499: ")

(***************************************************************************)
(* SyncClient: what a sync does to the event table (Spec)                  *)
(***************************************************************************)
\* a stored event without its synced flag: id, kind, timestamp, duration,
\* app name and title
Content(row) == [row EXCEPT !.synced = FALSE]

\* C33: a step of a sync_events call inserts no row, deletes none and
\* changes the content of none; the only change it makes to a row is to set
\* the synced flag, and only on the ids of the batch that was transmitted
C33_SyncOnlySetsTheSyncedFlag ==
  [][(sync' # sync) =>
       /\ Len(local_events') = Len(local_events)
       /\ \A k \in DOMAIN local_events :
            /\ Content(local_events'[k]) = Content(local_events[k])
            /\ local_events'[k].synced # local_events[k].synced =>
                 /\ local_events'[k].synced
                 /\ \E c \in SyncCallers :
                      /\ sync[c].pc = "mark"
                      /\ sync[c].sent # <<>>
                      /\ local_events[k].id \in Range(sync[c].batch)]_vars

\* a sync has marked the one event it transmitted and left the event stored
\* after its read as it was stored
C33_Witness ==
  /\ Len(local_events) = 2
  /\ local_events[1].synced /\ ~local_events[2].synced
  /\ local_events[2] = StoredRow(2, now, [process_name |-> "A", window_title |-> "t1"])
  /\ \E c \in SyncCallers : sync[c].pc = "state" /\ sync[c].batch = <<1>>

(***************************************************************************)
(* Collector: a tick that fails (FaultSpec)                                *)
(***************************************************************************)
\* the idle query failed
IdleFailed == {idle \in IdleResults : ~idle.ok}

\* C34: a tick whose probe fails leaves the loop alive at the top of its
\* next iteration, stores and counts nothing and keeps the last recorded
\* process name, so that the same process probed next is no change (A,
\* failure, A stores one event); a failed idle check never sends the loop to
\* its idle sleep, and the tick goes on to the probe; and a loop ends only
\* when it reads a cleared is_running flag
C34_FailedTickNeverEndsTheLoop ==
  [][\A i \in LoopIds :
       /\ \A idle \in IdleResults :
            LoopProbeFailed(i, idle) =>
               /\ loops'[i].pc = "check"
               /\ loops'[i].last_window = loops[i].last_window
               /\ local_events' = local_events
               /\ events_collected' = events_collected
               /\ \A w \in WindowInfo :
                    w.process_name = loops[i].last_window =>
                       ~WindowChanged(loops'[i].last_window, w)
       /\ \A idle \in IdleFailed :
            /\ ~LoopIdle(i, idle)
            /\ (loops[i].pc = "check" /\ is_running_lock = None /\ is_running) =>
                 /\ ENABLED LoopProbeFailed(i, idle)
                 /\ \A w \in WindowInfo :
                      ~WindowChanged(loops[i].last_window, w) =>
                         ENABLED LoopProbe(i, idle, w)
       /\ (loops[i].pc # "none" /\ loops'[i].pc = "none") =>
            (loops[i].pc = "check" /\ ~is_running)]_vars

\* the loop has stored A once and is at the top of a tick with the collector
\* running: a failed probe leaves it here, and A probed next is no change
C34_Witness ==
  \E i \in LoopIds :
    /\ loops[i].pc = "check"
    /\ is_running /\ is_running_lock = None
    /\ loops[i].last_window = "A"
    /\ StoredNames = <<"A">>
    /\ events_collected = 1

(***************************************************************************)
(* SyncClient: no mutex is held across the network (LockSpec)              *)
(***************************************************************************)
\* the call is suspended on the HTTP request or on the sleep of a back-off
Blocking(c) == sync[c].pc \in {"request", "sleeping"}

\* C35: while a request is in flight or a back-off sleep is going on, the
\* syncing call holds none of the mutexes of is_syncing, config and crypto;
\* so a get_status, set_config or set_crypto_key call waiting for its mutex
\* gets it and returns, even when the request is never answered
C35_NoLockHeldAcrossTheNetwork ==
  /\ [](\A c \in SyncCallers : Blocking(c) => \A l \in Locks : guards[l] # c)
  /\ \A t \in ApiCallers : (task[t] = "lock") ~> (task[t] = "idle")

\* a request is in flight while get_status holds the is_syncing mutex and
\* set_crypto_key the crypto mutex
C35_Witness ==
  /\ sync["s1"].pc = "request"
  /\ guards["is_syncing"] = "get_status"
  /\ guards["crypto"] = "set_crypto_key"

(***************************************************************************)
(* EventQueue: the permit count (QueueSpec)                                *)
(***************************************************************************)
\* no enqueue call is between its entry and its return (drain is one step)
Quiescent == \A p \in Producers : enq[p].pc = "idle"

\* C36: whenever no enqueue or drain is in progress, the available permits
\* and the resident events add up to the capacity; and the available
\* permits never exceed the capacity
C36_PermitsPlusResidentIsCapacity ==
  /\ Quiescent => semaphore + Len(events) = max_size
  /\ semaphore <= max_size

(***************************************************************************)
(* SyncClient: what sets a synced flag (Spec)                              *)
(***************************************************************************)
\* the failures of a sync that has not got a request through: Auth, Network,
\* Server, Encryption, and Unknown (not configured, already in progress, an
\* answer that is no success)
SendFailures == {"Auth", "Network", "Server", "Encryption", "Unknown"}

\* the answers that are no success: a failed transport, or a status outside
\* 200..299
NoSuccess == Responses \ Success2xx

\* C37: a synced flag is set only by the marking step of a sync_events call,
\* on an id of the batch it transmitted, and a call reaches that step only
\* from an attempt whose request the endpoint answered with a 2xx status; a
\* call that returns a failure of sending (or is rejected or not configured)
\* returns from before that step and so has marked nothing
C37_OnlyAnAnswered2xxMarks ==
  [][/\ ChangedIds # {} =>
          \E c \in SyncCallers :
             /\ MarkStep(c)
             /\ sync[c].sent # <<>>
             /\ ChangedIds \subseteq Range(sync[c].batch)
     /\ \A c \in SyncCallers :
          /\ (sync[c].pc # "mark" /\ sync'[c].pc = "mark") =>
               /\ sync[c].pc = "send"
               /\ \E resp \in Success2xx : SyncSend(c, resp)
          /\ sync[c].pc = "send" =>
               \A resp \in NoSuccess :
                  SyncSend(c, resp) => sync'[c].pc \in {"backoff", "failed"}
          /\ (sync[c].pc # "failed" /\ sync'[c].pc = "failed") =>
               sync[c].pc = "send"
          /\ (sync[c].pc # "idle" /\ sync'[c].pc = "idle"
                /\ returned'.kind \in SendFailures) =>
               /\ sync[c].pc \in {"guard", "get_config", "failed"}
               /\ local_events' = local_events]_vars

\* a sync has marked the first event, and a later sync that read the second
\* has failed with a Network error after its last attempt and returned: the
\* second event is still unsynced
C37_Witness ==
  /\ Len(local_events) = 2
  /\ local_events[1].synced /\ ~local_events[2].synced
  /\ returned.kind = "Network"
  /\ \A c \in SyncCallers : sync[c].pc = "idle"

(***************************************************************************)
(* SyncClient: the backlog drains (DrainSpec)                              *)
(***************************************************************************)
\* the key and the configuration are set (neither is ever unset again)
Configured == crypto # None /\ get_config # None

\* every stored event is marked synced: pending_events is 0
Drained == get_status.pending_events = 0

\* the answers with a 2xx status, and those of them whose body parses as
\* SyncResponse
Wire2xx == {r \in WireResponses : r.transport = "ok" /\ r.status \in 200..299}
Parsed2xx == {r \in Wire2xx : r.body_ok}

\* C38 as stated: when the key and the configuration are set, sync_events is
\* called again and again and the endpoint from some point on answers every
\* request with a 2xx status, the stored events are all marked synced in the
\* end and pending_events stays 0 (the capture stores finitely many events)
C38_BacklogDrainsOnAny2xx ==
  (/\ <>Configured
   /\ <>[][\A resp \in WireResponses \ Wire2xx : ~SyncSend("s1", resp)]_vars)
  => <>[]Drained

\* C38, amended: the same when the endpoint from some point on answers every
\* request with a 2xx status and a body that parses as SyncResponse
C38_BacklogDrainsOnParsed2xx ==
  (/\ <>Configured
   /\ <>[][\A resp \in WireResponses \ Parsed2xx : ~SyncSend("s1", resp)]_vars)
  => <>[]Drained

\* three events were stored, more than one batch holds, and all have been
\* marked synced by calls that followed a failed one
C38_Witness ==
  /\ Len(local_events) = MaxEvents
  /\ MaxEvents > BatchLimit
  /\ Drained
  /\ get_status.last_error = ""
  /\ sync["s1"].pc = "idle"

(***************************************************************************)
(* SyncClient: the auto-sync scheduler (AutoSpec)                          *)
(***************************************************************************)
\* no start_auto_sync call is between its entry and its return
NoStartInProgress == \A a \in AutoCallers : auto[a].pc = "idle"

\* C39: once the start_auto_sync calls have returned, at most one ticker
\* task is alive, whatever the interleaving of start_auto_sync and
\* stop_auto_sync calls was; and every stop_auto_sync that runs with no start
\* in progress leaves none alive
C39_AtMostOneTicker ==
  /\ [](NoStartInProgress => Cardinality(tickers) <= 1)
  /\ [][\A a \in AutoCallers :
          (NoStartInProgress /\ StopAutoSync(a)) => tickers' = {}]_vars

\* a caller inside a start, stop or get_status call
InCall(m) == mon[m] \notin Callable

\* C40: no interleaving of start, stop, get_status and the polling loops
\* deadlocks on the is_running, events_collected and active_window locks:
\* with store writes that complete, every start, stop and get_status call
\* returns in the end.
C40_EveryCallReturns ==
  \A m \in MonCallers : InCall(m) ~> ~InCall(m)

\* a stop call holds the is_running lock and waits for the active_window
\* lock, which a polling loop holds while it stores an event, while the other
\* caller waits in get_status for the is_running lock
C40_Witness ==
  /\ mon["m1"] = "stop_active"
  /\ is_running_lock = "m1"
  /\ active_window_lock # 0
  /\ mon["m2"] = "status_call"

====
